---- MODULE Spec2Model ----
(***************************************************************************)
(* QShield: the layered-XOR codec of quantum_shield.py (encrypt_data,      *)
(* decrypt_data, encrypt_file, decrypt_file) and the batch coordinator of  *)
(* encrypt_and_commit_main_files.py.                                       *)
(*                                                                         *)
(* Byte strings, path strings and passphrases are sequences of byte        *)
(* values 0..255, so that split, substring, endswith and XOR are computed  *)
(* as the code computes them.  Several specifications share the module:    *)
(*   CodecSpec  encrypt_data followed by decrypt_data on one plaintext;    *)
(*   FileSpec   encrypt_file followed by decrypt_file on one file;         *)
(*   PackageSpec  packages of encrypt_data: a second one, a tampered one;  *)
(*   FaultSpec  the file calls on a disk that refuses some operations;     *)
(*   VerifySpec one run of verify_encrypted_files.py;                      *)
(*   HookSpec   one run of pre_commit_hook.py;                             *)
(*   ExcludeSpec  one encrypt_file call on excluded and other paths;       *)
(*   Spec       one run of the batch coordinator.                          *)
(***************************************************************************)
EXTENDS Integers, Sequences, FiniteSets, TLC

VARIABLES
    hash,        \* the digests derive_encryption_key has produced so far
    plaintext,   \* CodecSpec: the plaintext_bytes handed to encrypt_data
    encKey,      \* CodecSpec, FileSpec: the passphrase used to encrypt
    decKey,      \* CodecSpec, FileSpec: the passphrase used to decrypt
    package,     \* CodecSpec: the package encrypt_data returned
    decrypted,   \* CodecSpec: what decrypt_data returned
    package2,    \* PackageSpec: the package of the second encrypt_data call
    decrypted2,  \* PackageSpec: what decrypt_data returned for package2
    cpc,         \* CodecSpec, PackageSpec: position of the codec run
    fs,          \* FileSpec, Spec: the files on disk, path -> bytes
    config,      \* FileSpec, Spec: self.config of the QuantumShield
    ncalls,      \* FileSpec: how many calls have been made
    last,        \* FileSpec: the last call, its result and the disk before
    artifactKey, \* FileSpec: artifact path -> passphrase that produced it
    perms,       \* FaultSpec, HookSpec: what the operating system refuses
    pc,          \* Spec: position of the coordinator script
    passphrase,  \* Spec: sys.argv[1] or SHIELD_PASSPHRASE, None if neither
    manifest,    \* Spec: the items of csv-manifest.json;
                 \* HookSpec: staged_files
    orig,        \* Spec: the working tree when the run began
    backup_zip,  \* Spec: the files of the selected snapshot, by relative path;
                 \* VerifySpec: sys.argv[1], whether it exists and its files
    tmpdir,      \* Spec: the safety store (mkdtemp 'shield-')
    verify_tmp,  \* Spec: the scratch directory (mkdtemp 'shield-verify-')
    orig_copies, \* Spec: the (full, tmp) pairs appended so far;
                 \* HookSpec: unencrypted_sensitive
    failed,      \* Spec: the failure flag
    idx,         \* Spec: position in the loop the script is running
    git,         \* Spec: index (staged paths), head (committed), pushed
    exitCode,    \* Spec: the exit status, -1 while none is set
    events,      \* Spec: the calls made and lines printed, in order
    corrupted,   \* Spec: the artifact altered after the push, None if none
    classification_arg, \* ScanSpec: the scan's classification argument
    pending,         \* ScanSpec: the paths rglob has still to yield
    encrypted_count, \* ScanSpec: the first counter of the scan
    skipped_count,   \* ScanSpec: the second counter of the scan
    audit_log,       \* ScanSpec: the entries of AUDIT_LOG, in order
    scan_pc,         \* ScanSpec: position of scan_and_encrypt_directory
    repo,            \* PurgeSpec: the branches of the repository and HEAD
    purge_config,    \* PurgeSpec: what load_purge_config returned
    total_commits,   \* PurgeSpec: total_commits of the function running
    current_branch,  \* PurgeSpec: current_branch of purge_old_commits
    new_root_hash,   \* PurgeSpec: new_root_hash of purge_old_commits
    purge_log,       \* PurgeSpec: the messages of log_purge_event and print
    purge_ret,       \* PurgeSpec: what purge_old_commits returned, if it has
    purge_pc         \* PurgeSpec: position of pre_push_hook.py

codecVars ==
    <<plaintext, encKey, decKey, package, decrypted, package2, decrypted2,
      cpc>>
fileVars == <<ncalls, last, artifactKey, perms>>
batchVars ==
    <<pc, passphrase, manifest, orig, backup_zip, tmpdir, verify_tmp,
      orig_copies, failed, idx, git, exitCode, events, corrupted>>
scanVars ==
    <<classification_arg, pending, encrypted_count, skipped_count, audit_log,
      scan_pc>>
purgeVars ==
    <<repo, purge_config, total_commits, current_branch, new_root_hash,
      purge_log, purge_ret, purge_pc>>

----------------------------------------------------------------------------
(* Bounds of the model *)

\* longest plaintext handed to encrypt_data
MaxLen == 3
\* longest manifest of a batch run
MaxEntries == 2
\* number of encrypt_file / decrypt_file calls in a FileSpec run
MaxCalls == 2
\* length of the derived key: sha512 yields 64 bytes; scaled down so that
\* the indices i % key_length wrap within MaxLen
KeyLen == 2

\* bytes the plaintexts are drawn from: '8', ':' and ';'
PlainBytes == {56, 58, 59}
\* bytes the digests are drawn from
KeyBytes == {1, 130}

----------------------------------------------------------------------------
(* Byte strings *)

\* (i + 1) % 256 and the width of a byte
ByteMod == 256
\* parts = encrypted_package.split(b'::', 3)
MaxSplit == 3
\* secrets.token_hex(32) is 64 hexadecimal characters
SaltHexLen == 64

\* Python's None
None == <<-1>>

\* b'::'
Sep == <<58, 58>>
\* self.config['encryption_marker'], 'ARTIFACT_SHIELD_ENCRYPTED'
Marker ==
    <<65, 82, 84, 73, 70, 65, 67, 84, 95, 83, 72, 73, 69, 76, 68, 95,
      69, 78, 67, 82, 89, 80, 84, 69, 68>>
\* b'v1.0'
Version == <<118, 49, 46, 48>>

\* every byte string over alphabet of length at most n
BSeq(alphabet, n) == UNION { [1..k -> alphabet] : k \in 0..n }

\* a ^ b on non-negative integers
RECURSIVE BitXor(_, _)
BitXor(a, b) ==
    IF a = 0 THEN b
    ELSE IF b = 0 THEN a
    ELSE (((a % 2) + (b % 2)) % 2) + 2 * BitXor(a \div 2, b \div 2)

\* s.find(pat) + 1: the first position at which pat occurs in s, 0 if none
Find(pat, s) ==
    LET hits == { i \in 1..(Len(s) - Len(pat) + 1) :
                      \A j \in 1..Len(pat) : s[i + j - 1] = pat[j] }
    IN  IF hits = {} THEN 0 ELSE CHOOSE i \in hits : \A j \in hits : i <= j

\* pat in s
IsSubstr(pat, s) == Find(pat, s) # 0

\* s.endswith(suffix)
EndsWith(s, suffix) ==
    /\ Len(suffix) <= Len(s)
    /\ SubSeq(s, Len(s) - Len(suffix) + 1, Len(s)) = suffix

\* s.split(sep, maxsplit): leftmost non-overlapping occurrences of sep
RECURSIVE Split(_, _, _)
Split(s, sep, maxsplit) ==
    LET i == Find(sep, s)
    IN  IF maxsplit = 0 \/ i = 0 THEN <<s>>
        ELSE <<SubSeq(s, 1, i - 1)>>
                 \o Split(SubSeq(s, i + Len(sep), Len(s)), sep, maxsplit - 1)

\* whether s[i..] is well-formed UTF-8
RECURSIVE Utf8From(_, _)
Utf8From(s, i) ==
    LET n == Len(s)
        Cont(k) == k <= n /\ s[k] \in 128..191
    IN  IF i > n THEN TRUE
        ELSE IF s[i] < 128 THEN Utf8From(s, i + 1)
        ELSE IF s[i] \in 194..223 THEN Cont(i + 1) /\ Utf8From(s, i + 2)
        ELSE IF s[i] = 224
             THEN Cont(i + 1) /\ s[i + 1] >= 160 /\ Cont(i + 2)
                  /\ Utf8From(s, i + 3)
        ELSE IF s[i] = 237
             THEN Cont(i + 1) /\ s[i + 1] <= 159 /\ Cont(i + 2)
                  /\ Utf8From(s, i + 3)
        ELSE IF s[i] \in 225..239
             THEN Cont(i + 1) /\ Cont(i + 2) /\ Utf8From(s, i + 3)
        ELSE IF s[i] = 240
             THEN Cont(i + 1) /\ s[i + 1] >= 144 /\ Cont(i + 2) /\ Cont(i + 3)
                  /\ Utf8From(s, i + 4)
        ELSE IF s[i] = 244
             THEN Cont(i + 1) /\ s[i + 1] <= 143 /\ Cont(i + 2) /\ Cont(i + 3)
                  /\ Utf8From(s, i + 4)
        ELSE IF s[i] \in 241..243
             THEN Cont(i + 1) /\ Cont(i + 2) /\ Cont(i + 3)
                  /\ Utf8From(s, i + 4)
        ELSE FALSE

\* whether bytes.decode('utf-8') succeeds (ASCII always decodes)
Utf8Valid(s) == (\A i \in 1..Len(s) : s[i] < 128) \/ Utf8From(s, 1)

----------------------------------------------------------------------------
(* Key derivation *)

\* the passphrases of the model: 'k1' and 'k2'
Passphrases == { <<107, 49>>, <<107, 50>> }

\* the values secrets.token_hex(32) may return: 64 times '0', 64 times 'f'
Salts == { [i \in 1..SaltHexLen |-> c] : c \in {48, 102} }

\* the value token_hex returns in the file-level runs (FileSpec, Spec),
\* whose files are never compared across salts: 64 times '0'
RunSalts == { [i \in 1..SaltHexLen |-> 48] }

\* the digests sha512 may return
Keys == [1..KeyLen -> KeyBytes]

\* f'{user_passphrase}::{file_salt}'.encode('utf-8')
Combined(user_passphrase, file_salt) == user_passphrase \o Sep \o file_salt

\* The chain sha3_512 -> blake2b -> sha512 is a fixed function whose values
\* the model does not compute: h is the part of it the run has evaluated,
\* and Digests(h, inputs) is every way of extending h to inputs.
Digests(h, inputs) ==
    { g \in [DOMAIN h \cup inputs -> Keys] : \A c \in DOMAIN h : g[c] = h[c] }

derive_encryption_key(h, user_passphrase, file_salt) ==
    h[Combined(user_passphrase, file_salt)]

----------------------------------------------------------------------------
(* encrypt_data and decrypt_data *)

\* Layer 1: encrypted[i] ^= encryption_key[i % key_length]
Layer1(data, key) ==
    [j \in 1..Len(data) |-> BitXor(data[j], key[((j - 1) % Len(key)) + 1])]

\* Layer 2 indexing the key forwards, as Layer 1 does
Layer2Forward(data, key) ==
    [j \in 1..Len(data) |-> BitXor(data[j], key[((j - 1) % Len(key)) + 1])]

\* Layer 2 indexing the key one place further: (len(encrypted) - i) % key_length
Layer2Shifted(data, key) ==
    [j \in 1..Len(data) |->
        BitXor(data[j], key[((Len(data) - j + 1) % Len(key)) + 1])]

\* Layer 2: encrypted[i] ^= encryption_key[(len(encrypted) - i - 1) % key_length]
Layer2(data, key) ==
    [j \in 1..Len(data) |->
        BitXor(data[j], key[((Len(data) - j) % Len(key)) + 1])]

\* Layer 3: encrypted[i] ^= (i + 1) % 256
Layer3(data) ==
    [j \in 1..Len(data) |-> BitXor(data[j], j % ByteMod)]

\* encrypt_data writing 64 times '0' where the salt belongs in the package
encrypt_data_salt_unrecorded(h, plaintext_bytes, user_key, file_salt) ==
    LET encryption_key == derive_encryption_key(h, user_key, file_salt)
        encrypted == Layer3(Layer2(Layer1(plaintext_bytes, encryption_key),
                                   encryption_key))
    IN  Marker \o Sep \o Version \o Sep \o [i \in 1..SaltHexLen |-> 48]
               \o Sep \o encrypted

\* the package encrypt_data returns when token_hex returns file_salt
encrypt_data(h, plaintext_bytes, user_key, file_salt) ==
    LET encryption_key == derive_encryption_key(h, user_key, file_salt)
        encrypted == Layer3(Layer2(Layer1(plaintext_bytes, encryption_key),
                                   encryption_key))
    IN  Marker \o Sep \o Version \o Sep \o file_salt \o Sep \o encrypted

\* parts = encrypted_package.split(b'::') with no cap on the splits
PackagePartsUncapped(encrypted_package) == Split(encrypted_package, Sep, -1)

\* parts = encrypted_package.split(b'::', 3)
PackageParts(encrypted_package) == Split(encrypted_package, Sep, MaxSplit)

\* the inputs decrypt_data hands to derive_encryption_key: none when it
\* returns before the derivation
DecryptHashInputs(encrypted_package, user_key) ==
    LET parts == Split(encrypted_package, Sep, MaxSplit)
    IN  IF Len(parts) # 4 THEN {}
        ELSE IF ~Utf8Valid(parts[1]) \/ parts[1] # Marker THEN {}
        ELSE IF ~Utf8Valid(parts[3]) THEN {}
        ELSE { Combined(user_key, parts[3]) }

\* decrypt_data with the split not capped: split(b'::') in place of
\* split(b'::', 3)
decrypt_data_uncapped(h, encrypted_package, user_key) ==
    LET parts == Split(encrypted_package, Sep, -1)
    IN  IF Len(parts) # 4 THEN None
        ELSE IF ~Utf8Valid(parts[1]) \/ parts[1] # Marker THEN None
        ELSE IF ~Utf8Valid(parts[3]) THEN None
        ELSE LET encryption_key ==
                     derive_encryption_key(h, user_key, parts[3])
             IN  Layer1(Layer2(Layer3(parts[4]), encryption_key),
                        encryption_key)

\* decrypt_data without the comparison of the marker field, for the keys
\* derived so far
decrypt_data_marker_unchecked(h, encrypted_package, user_key) ==
    LET parts == Split(encrypted_package, Sep, MaxSplit)
    IN  IF Len(parts) # 4 THEN None
        ELSE IF ~Utf8Valid(parts[3]) THEN None
        ELSE IF Combined(user_key, parts[3]) \notin DOMAIN h THEN None
        ELSE LET encryption_key ==
                     derive_encryption_key(h, user_key, parts[3])
             IN  Layer1(Layer2(Layer3(parts[4]), encryption_key),
                        encryption_key)

\* decrypt_data returning None for a version field other than b'v1.0'
decrypt_data_checks_version(h, encrypted_package, user_key) ==
    LET parts == Split(encrypted_package, Sep, MaxSplit)
    IN  IF Len(parts) # 4 THEN None
        ELSE IF ~Utf8Valid(parts[1]) \/ parts[1] # Marker THEN None
        ELSE IF parts[2] # Version THEN None
        ELSE IF ~Utf8Valid(parts[3]) THEN None
        ELSE LET encryption_key ==
                     derive_encryption_key(h, user_key, parts[3])
             IN  Layer1(Layer2(Layer3(parts[4]), encryption_key),
                        encryption_key)

decrypt_data(h, encrypted_package, user_key) ==
    LET parts == Split(encrypted_package, Sep, MaxSplit)
    IN  IF Len(parts) # 4 THEN None
        \* marker.decode('utf-8') raises, or differs from the marker
        ELSE IF ~Utf8Valid(parts[1]) \/ parts[1] # Marker THEN None
        \* salt_bytes.decode('utf-8') raises
        ELSE IF ~Utf8Valid(parts[3]) THEN None
        ELSE LET encryption_key ==
                     derive_encryption_key(h, user_key, parts[3])
             IN  Layer1(Layer2(Layer3(parts[4]), encryption_key),
                        encryption_key)

----------------------------------------------------------------------------
(* Paths (pathlib) and the file system *)

\* '.enc'
EncSuffix == <<46, 101, 110, 99>>
\* '.tmp'
TmpSuffix == <<46, 116, 109, 112>>
\* 'quantum_shield.py'
SelfName ==
    <<113, 117, 97, 110, 116, 117, 109, 95, 115, 104, 105, 101, 108, 100,
      46, 112, 121>>
\* the default config['exclude_patterns']:
\* '.shield', 'backups', 'scripts/shield', 'node_modules', '.git'
ExcludePatterns ==
    { <<46, 115, 104, 105, 101, 108, 100>>,
      <<98, 97, 99, 107, 117, 112, 115>>,
      <<115, 99, 114, 105, 112, 116, 115, 47, 115, 104, 105, 101, 108, 100>>,
      <<110, 111, 100, 101, 95, 109, 111, 100, 117, 108, 101, 115>>,
      <<46, 103, 105, 116>> }

\* the last position of byte c in s, 0 if none
RFind(c, s) ==
    LET hits == { i \in 1..Len(s) : s[i] = c }
    IN  IF hits = {} THEN 0 ELSE CHOOSE i \in hits : \A j \in hits : j <= i

\* a / b
Join(a, b) == a \o <<47>> \o b
\* path.name
NameOf(path) == SubSeq(path, RFind(47, path) + 1, Len(path))
\* path.parent
ParentOf(path) == SubSeq(path, 1, RFind(47, path) - 1)
\* PurePath.suffix of a name: from the last '.', unless the name starts or
\* ends with it
SuffixOf(name) ==
    LET i == RFind(46, name)
    IN  IF 1 < i /\ i < Len(name) THEN SubSeq(name, i, Len(name)) ELSE << >>
\* path.stem
StemOf(path) ==
    LET name == NameOf(path)
    IN  SubSeq(name, 1, Len(name) - Len(SuffixOf(name)))
\* path.suffix
PathSuffix(path) == SuffixOf(NameOf(path))
\* path.with_suffix(suffix)
WithSuffix(path, suffix) ==
    SubSeq(path, 1, Len(path) - Len(PathSuffix(path))) \o suffix

\* A file system is a function from the paths of its files to their bytes.
Exists(files, path) == path \in DOMAIN files
WriteFile(files, path, data) ==
    [q \in DOMAIN files \cup {path} |-> IF q = path THEN data ELSE files[q]]
Unlink(files, path) == [q \in DOMAIN files \ {path} |-> files[q]]

----------------------------------------------------------------------------
(* encrypt_file and decrypt_file *)

\* f.read(100)
HeaderLen == 100

\* What the operating system refuses: open(path, 'rb') raises for the paths
\* of unreadable, open(path, 'wb') for those of unwritable, unlink for those
\* of undeletable, open(AUDIT_LOG, 'a') if log_unwritable, and print() of a
\* symbol outside ASCII if unprintable (sys.stdout cannot encode it).
NoDenials ==
    [unreadable |-> {}, unwritable |-> {}, undeletable |-> {},
     log_unwritable |-> FALSE, unprintable |-> FALSE]
CanRead(files, denied, path) ==
    Exists(files, path) /\ path \notin denied.unreadable
CanWrite(denied, path) == path \notin denied.unwritable

\* log_event: whether it raises.  Its body is inside try / except Exception:
\* pass, so a failure to append to the audit log is swallowed.
log_event(denied) == FALSE

\* is_encrypted finding the marker in no file
is_encrypted_never(files, denied, file_path) == FALSE

\* open or read raising makes is_encrypted return False
is_encrypted(files, denied, file_path) ==
    /\ CanRead(files, denied, file_path)
    /\ IsSubstr(Marker,
                SubSeq(files[file_path], 1,
                       IF Len(files[file_path]) < HeaderLen
                       THEN Len(files[file_path]) ELSE HeaderLen))

\* should_exclude without the test for the tool's own file
should_exclude_patterns_only(file_path) ==
    \E pattern \in ExcludePatterns : IsSubstr(pattern, file_path)

should_exclude(file_path) ==
    \/ \E pattern \in ExcludePatterns : IsSubstr(pattern, file_path)
    \/ EndsWith(file_path, SelfName)

\* whether encrypt_file gets as far as encrypt_data
EncryptReads(files, denied, file_path) ==
    /\ ~should_exclude(file_path)
    /\ ~is_encrypted(files, denied, file_path)
    /\ CanRead(files, denied, file_path)

\* the inputs encrypt_file hands to derive_encryption_key
EncryptHashInputs(files, denied, file_path, user_key, file_salt) ==
    IF EncryptReads(files, denied, file_path)
    THEN { Combined(user_key, file_salt) } ELSE {}

\* The statements of encrypt_file inside its try: the file system they
\* leave, the value they return, and exc, whether one of them raised (ok is
\* then of no account).  cfg is self.config; file_salt is what token_hex
\* returns if it is called.
encrypt_file_try(h, cfg, files, denied, file_path, user_key, file_salt) ==
    IF should_exclude(file_path)
    THEN [files |-> files, ok |-> FALSE, exc |-> FALSE]
    ELSE IF is_encrypted(files, denied, file_path)
    THEN [files |-> files, ok |-> TRUE, exc |-> FALSE]
    \* open(file_path, 'rb') raises
    ELSE IF ~CanRead(files, denied, file_path)
    THEN [files |-> files, ok |-> FALSE, exc |-> TRUE]
    ELSE LET encrypted ==
                 encrypt_data(h, files[file_path], user_key, file_salt)
             encrypted_path ==
                 Join(ParentOf(file_path), NameOf(file_path) \o EncSuffix)
             written == WriteFile(files, encrypted_path, encrypted)
         IN  \* open(encrypted_path, 'wb') raises
             IF ~CanWrite(denied, encrypted_path)
             THEN [files |-> files, ok |-> FALSE, exc |-> TRUE]
             ELSE [files |->
                      \* unlink raising is caught by the inner try
                      IF /\ cfg.delete_original_after_encrypt
                         /\ ~cfg.dry_run
                         /\ file_path \notin denied.undeletable
                      THEN Unlink(written, file_path) ELSE written,
                   ok |-> TRUE, exc |-> FALSE]

\* encrypt_file with no except clause around its statements
encrypt_file_uncaught(h, cfg, files, denied, file_path, user_key, file_salt) ==
    LET r == encrypt_file_try(h, cfg, files, denied, file_path, user_key,
                              file_salt)
    IN  [files |-> r.files, ok |-> r.ok, exc |-> r.exc, raised |-> r.exc]

\* encrypt_file: the file system it leaves, the boolean it returns, whether
\* a statement inside the try raised, and whether the call itself raises:
\* except Exception logs the error and returns False.
encrypt_file(h, cfg, files, denied, file_path, user_key, file_salt) ==
    LET r == encrypt_file_try(h, cfg, files, denied, file_path, user_key,
                              file_salt)
    IN  [files |-> r.files,
         ok |-> IF r.exc THEN FALSE ELSE r.ok,
         exc |-> r.exc,
         raised |-> r.exc /\ log_event(denied)]

\* the inputs decrypt_file hands to derive_encryption_key
DecryptFileHashInputs(files, denied, file_path, user_key) ==
    IF EndsWith(file_path, EncSuffix) /\ CanRead(files, denied, file_path)
    THEN DecryptHashInputs(files[file_path], user_key) ELSE {}

\* the statements of decrypt_file inside its try, file_path.unlink() left
\* out or not
decrypt_file_steps(h, files, denied, file_path, user_key, unlinks) ==
    IF ~EndsWith(file_path, EncSuffix)
    THEN [files |-> files, ok |-> FALSE, exc |-> FALSE]
    \* open(file_path, 'rb') raises
    ELSE IF ~CanRead(files, denied, file_path)
    THEN [files |-> files, ok |-> FALSE, exc |-> TRUE]
    ELSE LET plain == decrypt_data(h, files[file_path], user_key)
             original_path == Join(ParentOf(file_path), StemOf(file_path))
             written == WriteFile(files, original_path, plain)
         IN  IF plain = None
             THEN [files |-> files, ok |-> FALSE, exc |-> FALSE]
             \* open(original_path, 'wb') raises
             ELSE IF ~CanWrite(denied, original_path)
             THEN [files |-> files, ok |-> FALSE, exc |-> TRUE]
             ELSE IF ~unlinks
             THEN [files |-> written, ok |-> TRUE, exc |-> FALSE]
             \* file_path.unlink() raises, the plaintext already written
             ELSE IF file_path \in denied.undeletable
             THEN [files |-> written, ok |-> FALSE, exc |-> TRUE]
             ELSE [files |-> Unlink(written, file_path),
                   ok |-> TRUE, exc |-> FALSE]

\* decrypt_file without file_path.unlink()
decrypt_file_keeps_artifact(h, files, denied, file_path, user_key) ==
    LET r == decrypt_file_steps(h, files, denied, file_path, user_key, FALSE)
    IN  [files |-> r.files,
         ok |-> IF r.exc THEN FALSE ELSE r.ok,
         exc |-> r.exc,
         raised |-> r.exc /\ log_event(denied)]

\* decrypt_file removing the artifact before it looks at what decrypt_data
\* returned
decrypt_file_unlinks_first(h, files, denied, file_path, user_key) ==
    LET r == decrypt_file_steps(h, files, denied, file_path, user_key, TRUE)
        rejected == /\ EndsWith(file_path, EncSuffix)
                    /\ CanRead(files, denied, file_path)
                    /\ decrypt_data(h, files[file_path], user_key) = None
    IN  [files |-> IF rejected THEN Unlink(files, file_path) ELSE r.files,
         ok |-> IF r.exc THEN FALSE ELSE r.ok,
         exc |-> r.exc,
         raised |-> r.exc /\ log_event(denied)]

\* decrypt_file: the file system it leaves, the boolean it returns, whether
\* a statement inside the try raised, and whether the call itself raises
decrypt_file(h, files, denied, file_path, user_key) ==
    LET r == decrypt_file_steps(h, files, denied, file_path, user_key, TRUE)
    IN  [files |-> r.files,
         ok |-> IF r.exc THEN FALSE ELSE r.ok,
         exc |-> r.exc,
         raised |-> r.exc /\ log_event(denied)]

\* whether a statement inside the try of decrypt_data raises: decode('utf-8')
\* of the marker field, or of the salt field once the marker has matched
decrypt_data_raises(encrypted_package) ==
    LET parts == PackageParts(encrypted_package)
    IN  /\ Len(parts) = 4
        /\ \/ ~Utf8Valid(parts[1])
           \/ parts[1] = Marker /\ ~Utf8Valid(parts[3])

\* decrypt_data with no except clause around its statements
decrypt_data_uncaught(h, denied, encrypted_package, user_key) ==
    [value |-> decrypt_data(h, encrypted_package, user_key),
     exc |-> decrypt_data_raises(encrypted_package),
     raised |-> decrypt_data_raises(encrypted_package)]

\* one call of decrypt_data: the value it returns, whether a statement
\* inside the try raised, and whether the call itself raises: except
\* Exception logs the error and returns None
decrypt_data_call(h, denied, encrypted_package, user_key) ==
    [value |-> decrypt_data(h, encrypted_package, user_key),
     exc |-> decrypt_data_raises(encrypted_package),
     raised |-> decrypt_data_raises(encrypted_package) /\ log_event(denied)]

----------------------------------------------------------------------------
(* Configuration and the inputs of the file-level runs *)

\* the values load_or_create_config gives the two keys encrypt_file reads
DefaultConfig ==
    [delete_original_after_encrypt |-> FALSE, dry_run |-> FALSE]

\* the values config.json may give them
Configs == [delete_original_after_encrypt : BOOLEAN, dry_run : BOOLEAN]

\* '/r/a/x' and '/r/.git/x' (the latter matches the pattern '.git')
FilePaths ==
    { <<47, 114, 47, 97, 47, 120>>,
      <<47, 114, 47, 46, 103, 105, 116, 47, 120>> }
\* the paths the calls are made on: the files and their artifacts
CallPaths == FilePaths \cup { path \o EncSuffix : path \in FilePaths }
\* the bytes a file may hold at first: nothing, ';8', the marker and a newline
FileContents == { << >>, <<59, 56>>, Marker \o <<10>> }

NoCall ==
    [op |-> "none", path |-> << >>, key |-> << >>, ok |-> FALSE,
     exc |-> FALSE, raised |-> FALSE, before |-> << >>,
     producedWith |-> None]

----------------------------------------------------------------------------
(* The coordinator's inputs *)

\* ROOT, here '/r'
Root == <<47, 114>>
\* the paths of the sensitive items a manifest may hold: 'a/x', 'b/x' (the
\* same file name in another directory) and '.git/y' (excluded by '.git')
ManifestPaths ==
    { <<97, 47, 120>>, <<98, 47, 120>>, <<46, 103, 105, 116, 47, 121>> }
\* the items a manifest may hold: those, and 'c' without the sensitive flag
ManifestItems ==
    { [path |-> p, sensitive |-> TRUE] : p \in ManifestPaths }
        \cup { [path |-> <<99>>, sensitive |-> FALSE] }
\* the manifests: at most MaxEntries items, no path twice
Manifests ==
    { m \in UNION { [1..n -> ManifestItems] : n \in 0..MaxEntries } :
        \A j, k \in 1..Len(m) : m[j].path = m[k].path => j = k }
\* the bytes a governed file may hold: ';', '8', the marker and a newline
BatchContents == { <<59>>, <<56>>, Marker \o <<10>> }
\* what the command line and the environment may give as the passphrase
CliPassphrases == { None, <<107, 49>> }

\* the state of the coordinator's variables in the runs that do not use it
BatchIdle ==
    /\ pc = "idle"
    /\ passphrase = None
    /\ manifest = << >>
    /\ orig = << >>
    /\ backup_zip = None
    /\ tmpdir = [exists |-> FALSE, files |-> << >>]
    /\ verify_tmp = [exists |-> FALSE, files |-> << >>]
    /\ orig_copies = << >>
    /\ failed = FALSE
    /\ idx = 0
    /\ git = [index |-> {}, head |-> {}, pushed |-> FALSE]
    /\ exitCode = -1
    /\ events = << >>
    /\ corrupted = None

\* the state of the scan's variables in the runs that do not use it
ScanIdle ==
    /\ classification_arg = None
    /\ pending = {}
    /\ encrypted_count = 0
    /\ skipped_count = 0
    /\ audit_log = << >>
    /\ scan_pc = "idle"

\* the state of the purge's variables in the runs that do not use it
PurgeIdle ==
    /\ repo = [branches |-> << >>, head |-> "main"]
    /\ purge_config =
         [keep_commits |-> 5, backup_enabled |-> TRUE, fail_safe |-> TRUE]
    /\ total_commits = 0
    /\ current_branch = "main"
    /\ new_root_hash = None
    /\ purge_log = << >>
    /\ purge_ret = "none"
    /\ purge_pc = "idle"

----------------------------------------------------------------------------
(* CodecSpec: encrypt_data, then decrypt_data of its package *)

\* plaintexts long enough for the position factor (i + 1) % 256 to wrap
LongPlaintexts ==
    { [i \in 1..n |-> 56] : n \in {ByteMod - 1, ByteMod, ByteMod + 1} }

CodecInit ==
    /\ hash = << >>
    /\ plaintext \in BSeq(PlainBytes, MaxLen) \cup LongPlaintexts
    /\ encKey \in Passphrases
    /\ decKey \in Passphrases
    /\ package = None
    /\ decrypted = None
    /\ package2 = None
    /\ decrypted2 = None
    /\ cpc = "start"
    /\ fs = << >>
    /\ config = DefaultConfig
    /\ ncalls = 0
    /\ last = NoCall
    /\ artifactKey = << >>
    /\ perms = NoDenials
    /\ BatchIdle
    /\ ScanIdle
    /\ PurgeIdle

EncryptData ==
    /\ cpc = "start"
    /\ \E file_salt \in Salts :
         \E h \in Digests(hash, {Combined(encKey, file_salt)}) :
            /\ hash' = h
            /\ package' = encrypt_data(h, plaintext, encKey, file_salt)
    /\ cpc' = "encrypted"
    /\ UNCHANGED <<plaintext, encKey, decKey, decrypted, package2, decrypted2,
                   fs, config, fileVars, batchVars,
                   scanVars, purgeVars>>

DecryptData ==
    /\ cpc = "encrypted"
    /\ \E h \in Digests(hash, DecryptHashInputs(package, decKey)) :
            /\ hash' = h
            /\ decrypted' = decrypt_data(h, package, decKey)
    /\ cpc' = "decrypted"
    /\ UNCHANGED <<plaintext, encKey, decKey, package, package2, decrypted2,
                   fs, config, fileVars, batchVars,
                   scanVars, purgeVars>>

vars ==
    <<hash, codecVars, fs, config, fileVars, batchVars, scanVars, purgeVars>>

CodecNext == EncryptData \/ DecryptData

CodecSpec == CodecInit /\ [][CodecNext]_vars

----------------------------------------------------------------------------
(* PackageSpec: what becomes of the package encrypt_data returned, either  *)
(* altered in its marker field and decrypted, or joined by the package of  *)
(* a second call on the same plaintext and passphrase, both decrypted      *)

\* the plaintexts of these runs: b'', b'8' and b'::;'
PackagePlaintexts == { << >>, <<56>>, <<58, 58, 59>> }
\* the values a byte of the marker field is changed to: NUL, ':', 'A' and
\* 0xC8, which no UTF-8 text holds before an ASCII byte
TamperBytes == {0, 58, 65, 200}

\* salt_bytes of a package
SaltOf(encrypted_package) == Split(encrypted_package, Sep, MaxSplit)[3]

PackageInit ==
    /\ hash = << >>
    /\ plaintext \in PackagePlaintexts
    /\ encKey \in Passphrases
    /\ decKey \in Passphrases
    /\ package = None
    /\ decrypted = None
    /\ package2 = None
    /\ decrypted2 = None
    /\ cpc = "start"
    /\ fs = << >>
    /\ config = DefaultConfig
    /\ ncalls = 0
    /\ last = NoCall
    /\ artifactKey = << >>
    /\ perms = NoDenials
    /\ BatchIdle
    /\ ScanIdle
    /\ PurgeIdle

\* one byte of the marker field of the package becomes another byte
TamperMarker ==
    /\ cpc = "encrypted"
    /\ \E i \in 1..Len(Marker) :
          \E b \in TamperBytes \ {package[i]} :
             package' = [package EXCEPT ![i] = b]
    /\ cpc' = "tampered"
    /\ UNCHANGED <<hash, plaintext, encKey, decKey, decrypted, package2,
                   decrypted2, fs, config, fileVars, batchVars,
                   scanVars, purgeVars>>

\* decrypt_data(package, decKey) on the altered package
DecryptTampered ==
    /\ cpc = "tampered"
    /\ \E h \in Digests(hash, DecryptHashInputs(package, decKey)) :
            /\ hash' = h
            /\ decrypted' = decrypt_data(h, package, decKey)
    /\ cpc' = "tampered_decrypted"
    /\ UNCHANGED <<plaintext, encKey, decKey, package, package2, decrypted2,
                   fs, config, fileVars, batchVars,
                   scanVars, purgeVars>>

\* encrypt_data(plaintext, encKey) once more.  token_hex draws 256 bits from
\* the system's generator: two draws of one run are taken to differ.
EncryptDataAgain ==
    /\ cpc = "encrypted"
    /\ \E file_salt \in Salts \ {SaltOf(package)} :
         \E h \in Digests(hash, {Combined(encKey, file_salt)}) :
            /\ hash' = h
            /\ package2' = encrypt_data(h, plaintext, encKey, file_salt)
    /\ cpc' = "encrypted2"
    /\ UNCHANGED <<plaintext, encKey, decKey, package, decrypted, decrypted2,
                   fs, config, fileVars, batchVars,
                   scanVars, purgeVars>>

\* decrypt_data(package, encKey)
DecryptFirst ==
    /\ cpc = "encrypted2"
    /\ \E h \in Digests(hash, DecryptHashInputs(package, encKey)) :
            /\ hash' = h
            /\ decrypted' = decrypt_data(h, package, encKey)
    /\ cpc' = "decrypted1"
    /\ UNCHANGED <<plaintext, encKey, decKey, package, package2, decrypted2,
                   fs, config, fileVars, batchVars,
                   scanVars, purgeVars>>

\* decrypt_data(package2, encKey)
DecryptSecond ==
    /\ cpc = "decrypted1"
    /\ \E h \in Digests(hash, DecryptHashInputs(package2, encKey)) :
            /\ hash' = h
            /\ decrypted2' = decrypt_data(h, package2, encKey)
    /\ cpc' = "decrypted2"
    /\ UNCHANGED <<plaintext, encKey, decKey, package, decrypted, package2,
                   fs, config, fileVars, batchVars,
                   scanVars, purgeVars>>

\* a byte no UTF-8 text holds
BadByte == 255
\* the packages made of encrypted_package that decrypt_data has to reject:
\* cut to fewer than 4 fields (nothing, the marker, marker and version,
\* all but the third separator), the separators replaced, a marker or a salt
\* that is not UTF-8, another marker
MalformedOf(encrypted_package) ==
    LET m == Len(Marker)
        v == m + Len(Sep) + Len(Version)
        s == v + Len(Sep) + SaltHexLen
    IN  { SubSeq(encrypted_package, 1, n) : n \in {0, m, v, s, s + 1} }
          \cup { [encrypted_package EXCEPT ![m + 1] = 45, ![m + 2] = 45] }
          \cup { [encrypted_package EXCEPT ![i] = BadByte] :
                   i \in {1, m, v + Len(Sep) + 1, s} }
          \cup { [encrypted_package EXCEPT ![1] = 66] }

\* the package reaches decrypt_data cut or altered
Malform ==
    /\ cpc = "encrypted"
    /\ package' \in MalformedOf(package)
    /\ cpc' = "malformed"
    /\ UNCHANGED <<hash, plaintext, encKey, decKey, decrypted, package2,
                   decrypted2, fs, config, fileVars, batchVars,
                   scanVars, purgeVars>>

\* decrypt_data(package, decKey) on the malformed package
DecryptMalformed ==
    /\ cpc = "malformed"
    /\ \E h \in Digests(hash, DecryptHashInputs(package, decKey)) :
          LET r == decrypt_data_call(h, perms, package, decKey)
          IN  /\ hash' = h
              /\ decrypted' = r.value
              /\ last' = [NoCall EXCEPT !.op = "decrypt_data",
                                        !.key = decKey,
                                        !.ok = (r.value # None),
                                        !.exc = r.exc,
                                        !.raised = r.raised]
    /\ cpc' = "malformed_decrypted"
    /\ UNCHANGED <<plaintext, encKey, decKey, package, package2, decrypted2,
                   fs, config, ncalls, artifactKey, perms, batchVars,
                   scanVars, purgeVars>>

\* the values the version field is changed to: 'v9.9', 'x' and nothing
OtherVersions == { <<118, 57, 46, 57>>, <<120>>, << >> }

\* the package reaches decrypt_data with another version field
Reversion ==
    /\ cpc = "encrypted"
    /\ \E version \in OtherVersions :
          package' = Marker \o Sep \o version \o Sep \o SaltOf(package)
                       \o Sep \o PackageParts(package)[4]
    /\ cpc' = "reversioned"
    /\ UNCHANGED <<hash, plaintext, encKey, decKey, decrypted, package2,
                   decrypted2, fs, config, fileVars, batchVars,
                   scanVars, purgeVars>>

\* decrypt_data(package, decKey) on the package with the other version
DecryptReversioned ==
    /\ cpc = "reversioned"
    /\ \E h \in Digests(hash, DecryptHashInputs(package, decKey)) :
          LET r == decrypt_data_call(h, perms, package, decKey)
          IN  /\ hash' = h
              /\ decrypted' = r.value
              /\ last' = [NoCall EXCEPT !.op = "decrypt_data",
                                        !.key = decKey,
                                        !.ok = (r.value # None),
                                        !.exc = r.exc,
                                        !.raised = r.raised]
    /\ cpc' = "reversioned_decrypted"
    /\ UNCHANGED <<plaintext, encKey, decKey, package, package2, decrypted2,
                   fs, config, ncalls, artifactKey, perms, batchVars,
                   scanVars, purgeVars>>

PackageNext ==
    \/ EncryptData
    \/ TamperMarker
    \/ DecryptTampered
    \/ EncryptDataAgain
    \/ DecryptFirst
    \/ DecryptSecond
    \/ Malform
    \/ DecryptMalformed
    \/ Reversion
    \/ DecryptReversioned

PackageSpec == PackageInit /\ [][PackageNext]_vars

----------------------------------------------------------------------------
(* FileSpec: calls of encrypt_file and decrypt_file on a small disk *)

FileInit ==
    /\ hash = << >>
    /\ plaintext = << >>
    /\ encKey = << >>
    /\ decKey = << >>
    /\ package = None
    /\ decrypted = None
    /\ package2 = None
    /\ decrypted2 = None
    /\ cpc = "file"
    /\ \E present \in SUBSET FilePaths : fs \in [present -> FileContents]
    /\ config \in Configs
    /\ ncalls = 0
    /\ last = NoCall
    /\ artifactKey = << >>
    /\ perms = NoDenials
    /\ BatchIdle
    /\ ScanIdle
    /\ PurgeIdle

\* the passphrase recorded for the artifact at path, None if there is none
ProducedWith(path) ==
    IF path \in DOMAIN artifactKey THEN artifactKey[path] ELSE None

EncryptFile ==
    /\ ncalls < MaxCalls
    /\ \E file_path \in CallPaths, user_key \in Passphrases,
          file_salt \in RunSalts :
         \E h \in Digests(hash, EncryptHashInputs(fs, perms, file_path,
                                                  user_key, file_salt)) :
            LET r == encrypt_file(h, config, fs, perms, file_path, user_key,
                                  file_salt)
            IN  /\ hash' = h
                /\ fs' = r.files
                /\ last' = [op |-> "encrypt", path |-> file_path,
                            key |-> user_key, ok |-> r.ok, exc |-> r.exc,
                            raised |-> r.raised, before |-> fs,
                            producedWith |-> ProducedWith(file_path)]
                /\ artifactKey' =
                     IF EncryptReads(fs, perms, file_path) /\ ~r.exc
                     THEN WriteFile(artifactKey, file_path \o EncSuffix,
                                    user_key)
                     ELSE artifactKey
    /\ ncalls' = ncalls + 1
    /\ UNCHANGED <<codecVars, scanVars, purgeVars, config, perms, batchVars>>

DecryptFile ==
    /\ ncalls < MaxCalls
    /\ \E file_path \in CallPaths, user_key \in Passphrases :
         \E h \in Digests(hash, DecryptFileHashInputs(fs, perms, file_path,
                                                      user_key)) :
            LET r == decrypt_file(h, fs, perms, file_path, user_key)
            IN  /\ hash' = h
                /\ fs' = r.files
                /\ last' = [op |-> "decrypt", path |-> file_path,
                            key |-> user_key, ok |-> r.ok, exc |-> r.exc,
                            raised |-> r.raised, before |-> fs,
                            producedWith |-> ProducedWith(file_path)]
                /\ artifactKey' =
                     IF r.ok THEN Unlink(artifactKey, file_path)
                     ELSE artifactKey
    /\ ncalls' = ncalls + 1
    /\ UNCHANGED <<codecVars, scanVars, purgeVars, config, perms, batchVars>>

FileNext == EncryptFile \/ DecryptFile

FileSpec == FileInit /\ [][FileNext]_vars

----------------------------------------------------------------------------
(* FaultSpec: the same calls on a disk that holds malformed artifacts and  *)
(* refuses some operations                                                 *)

\* '/r/a/x' and its artifact '/r/a/x.enc'
FaultPath == <<47, 114, 47, 97, 47, 120>>
FaultArtifact == FaultPath \o EncSuffix
\* what the operating system may refuse
Denials ==
    { NoDenials,
      [NoDenials EXCEPT !.unreadable = {FaultPath}],
      [NoDenials EXCEPT !.unreadable = {FaultArtifact}],
      [NoDenials EXCEPT !.unwritable = {FaultArtifact},
                        !.log_unwritable = TRUE],
      [NoDenials EXCEPT !.unwritable = {FaultPath}, !.log_unwritable = TRUE],
      [NoDenials EXCEPT !.undeletable = {FaultPath, FaultArtifact}] }
\* the bytes an artifact may hold that encrypt_data did not write: nothing,
\* the marker alone, a package cut after its version, and a package whose
\* salt field is not UTF-8
MalformedArtifacts ==
    { << >>,
      Marker,
      Marker \o Sep \o Version,
      Marker \o Sep \o Version \o Sep \o <<200>> \o Sep \o <<59>> }

\* the configurations of these runs: originals deleted after encryption or
\* kept, dry_run off
FaultConfigs == { c \in Configs : ~c.dry_run }

FaultInit ==
    /\ hash = << >>
    /\ plaintext = << >>
    /\ encKey = << >>
    /\ decKey = << >>
    /\ package = None
    /\ decrypted = None
    /\ package2 = None
    /\ decrypted2 = None
    /\ cpc = "file"
    /\ \E present \in SUBSET {FaultPath} :
         \E artifacts \in SUBSET {FaultArtifact} :
            \E plain \in [present -> {<<59, 56>>}],
               broken \in [artifacts -> MalformedArtifacts] :
               fs = [q \in present \cup artifacts |->
                        IF q \in present THEN plain[q] ELSE broken[q]]
    /\ config \in FaultConfigs
    /\ ncalls = 0
    /\ last = NoCall
    /\ artifactKey = << >>
    /\ perms \in Denials
    /\ BatchIdle
    /\ ScanIdle
    /\ PurgeIdle

FaultSpec == FaultInit /\ [][FileNext]_vars

----------------------------------------------------------------------------
(* ExcludeSpec: one encrypt_file call on paths that should_exclude accepts *)
(* or refuses                                                              *)

\* the paths the call is made on.  Not excluded: '/r/a/x', '/r/git/x',
\* '/r/scripts/x', '/r/quantum_shield.pyc'.  Excluded by a pattern:
\* '/r/.git/x', '/r/backups/x', '/r/a/x.shield', '/r/node_modules/x',
\* '/r/scripts/shield/x'.  Excluded as the tool itself:
\* '/r/quantum_shield.py', '/r/my_quantum_shield.py'.
ExcludeCallPaths ==
    { <<47, 114, 47, 97, 47, 120>>,
      <<47, 114, 47, 103, 105, 116, 47, 120>>,
      <<47, 114, 47, 115, 99, 114, 105, 112, 116, 115, 47, 120>>,
      <<47, 114, 47, 113, 117, 97, 110, 116, 117, 109, 95, 115, 104,
        105, 101, 108, 100, 46, 112, 121, 99>>,
      <<47, 114, 47, 46, 103, 105, 116, 47, 120>>,
      <<47, 114, 47, 98, 97, 99, 107, 117, 112, 115, 47, 120>>,
      <<47, 114, 47, 97, 47, 120, 46, 115, 104, 105, 101, 108, 100>>,
      <<47, 114, 47, 110, 111, 100, 101, 95, 109, 111, 100, 117, 108,
        101, 115, 47, 120>>,
      <<47, 114, 47, 115, 99, 114, 105, 112, 116, 115, 47, 115, 104,
        105, 101, 108, 100, 47, 120>>,
      <<47, 114, 47, 113, 117, 97, 110, 116, 117, 109, 95, 115, 104,
        105, 101, 108, 100, 46, 112, 121>>,
      <<47, 114, 47, 109, 121, 95, 113, 117, 97, 110, 116, 117, 109,
        95, 115, 104, 105, 101, 108, 100, 46, 112, 121>> }

\* every path holds a file, all with the same bytes
ExcludeInit ==
    /\ hash = << >>
    /\ plaintext = << >>
    /\ encKey = << >>
    /\ decKey = << >>
    /\ package = None
    /\ decrypted = None
    /\ package2 = None
    /\ decrypted2 = None
    /\ cpc = "file"
    /\ \E c \in FileContents : fs = [p \in ExcludeCallPaths |-> c]
    /\ config \in Configs
    /\ ncalls = 0
    /\ last = NoCall
    /\ artifactKey = << >>
    /\ perms = NoDenials
    /\ BatchIdle
    /\ ScanIdle
    /\ PurgeIdle

\* encrypt_file(file_path, user_key), once
EncryptAt ==
    /\ ncalls = 0
    /\ \E file_path \in ExcludeCallPaths, user_key \in Passphrases,
          file_salt \in RunSalts :
         \E h \in Digests(hash, EncryptHashInputs(fs, perms, file_path,
                                                  user_key, file_salt)) :
            LET r == encrypt_file(h, config, fs, perms, file_path, user_key,
                                  file_salt)
            IN  /\ hash' = h
                /\ fs' = r.files
                /\ last' = [op |-> "encrypt", path |-> file_path,
                            key |-> user_key, ok |-> r.ok, exc |-> r.exc,
                            raised |-> r.raised, before |-> fs,
                            producedWith |-> None]
    /\ ncalls' = ncalls + 1
    /\ UNCHANGED <<codecVars, scanVars, purgeVars, config, artifactKey, perms,
                   batchVars>>

ExcludeNext == EncryptAt

ExcludeSpec == ExcludeInit /\ [][ExcludeNext]_vars

----------------------------------------------------------------------------
(* ScanSpec: one call of scan_and_encrypt_directory on a small tree        *)

\* first_lines = f.read(500)
FilterLen == 500
\* the classification string handed to the scan, 'TOP_SECRET'
TopSecret == <<84, 79, 80, 95, 83, 69, 67, 82, 69, 84>>
\* the classification arguments: None, '' and 'TOP_SECRET'
ScanClassifications == { None, << >>, TopSecret }
\* if classification: None and '' are false
Truthy(classification) == classification # None /\ classification # << >>

\* n times the byte b
Repeat(b, n) == [i \in 1..n |-> b]
\* the bytes a scanned file may hold: ';8'; the marker and a newline;
\* 'TOP_SECRET'; 491 letters and then 'TOP_SECRET', which ends at character
\* 501; ten bytes 0xff, 490 letters and 'TOP_SECRET', which ends at byte 510
\* and, the bytes 0xff being dropped by the decoder, at character 500
ScanContents ==
    { <<59, 56>>,
      Marker \o <<10>>,
      TopSecret,
      Repeat(102, 491) \o TopSecret,
      Repeat(BadByte, 10) \o Repeat(102, 490) \o TopSecret }

\* open(file_path, 'r', encoding='utf-8', errors='ignore'): the text of
\* bytes that are ASCII or 0xff; 0xff starts no UTF-8 sequence and is dropped
DecodeIgnore(data) == SelectSeq(data, LAMBDA b : b < 128)
\* first_lines = f.read(500)
first_lines(files, file_path) ==
    LET text == DecodeIgnore(files[file_path])
    IN  SubSeq(text, 1, IF Len(text) < FilterLen THEN Len(text) ELSE FilterLen)

\* whether the scan goes on to encrypt_file for a regular file: no
\* classification, or the file opens and the classification is in first_lines
PassesFilter(files, denied, classification, file_path) ==
    \/ ~Truthy(classification)
    \/ /\ CanRead(files, denied, file_path)
       /\ IsSubstr(classification, first_lines(files, file_path))

\* the messages encrypt_file hands to log_event, in order
encrypt_file_events(cfg, files, denied, file_path) ==
    LET encrypted_path ==
            Join(ParentOf(file_path), NameOf(file_path) \o EncSuffix)
        entry(msg) == <<[msg |-> msg, path |-> file_path]>>
    IN  IF should_exclude(file_path) THEN entry("Skipped (excluded)")
        ELSE IF is_encrypted(files, denied, file_path)
        THEN entry("Already encrypted")
        ELSE IF \/ ~CanRead(files, denied, file_path)
                \/ ~CanWrite(denied, encrypted_path)
        THEN entry("Encryption error for")
        ELSE (IF /\ cfg.delete_original_after_encrypt
                 /\ ~cfg.dry_run
                 /\ file_path \in denied.undeletable
              THEN entry("Failed to remove original") ELSE << >>)
                 \o entry("Encrypted")

\* log_event opening the log with mode 'w'
log_event_truncates(log, denied, messages) ==
    IF denied.log_unwritable \/ messages = << >> THEN log
    ELSE <<messages[Len(messages)]>>

\* the audit log after log_event was called with each of the messages:
\* open(AUDIT_LOG, 'a') appends, and a log that cannot be opened is left
log_event_appends(log, denied, messages) ==
    IF denied.log_unwritable THEN log ELSE log \o messages

\* the files of the scanned tree: '/r/a/x' and '/r/a/.gitx', which the
\* pattern '.git' excludes
ScanPaths == { FaultPath, <<47, 114, 47, 97, 47, 46, 103, 105, 116, 120>> }
\* what each of them may hold
ScanContentsAt(path) ==
    IF path = FaultPath THEN ScanContents ELSE { <<59, 56>>, TopSecret }

\* the directories rglob('*') yields besides the files
DirsOf(files) == { ParentOf(path) : path \in DOMAIN files } \ {Root}

\* what the operating system may refuse during a scan
ScanDenials ==
    { NoDenials,
      [NoDenials EXCEPT !.unreadable = {FaultPath}],
      [NoDenials EXCEPT !.unwritable = {FaultArtifact}],
      [NoDenials EXCEPT !.undeletable = {FaultPath}],
      [NoDenials EXCEPT !.unreadable = {FaultPath},
                        !.log_unwritable = TRUE] }

\* scan_and_encrypt_directory('/r', user_key, classification) is entered:
\* both counters are 0 and rglob has everything under '/r' to yield
ScanInit ==
    /\ hash = << >>
    /\ plaintext = << >>
    /\ encKey \in Passphrases
    /\ decKey = << >>
    /\ package = None
    /\ decrypted = None
    /\ package2 = None
    /\ decrypted2 = None
    /\ cpc = "file"
    /\ \E present \in SUBSET ScanPaths :
         fs \in { f \in [present -> ScanContents] :
                     \A path \in present : f[path] \in ScanContentsAt(path) }
    /\ config \in FaultConfigs
    /\ ncalls = 0
    /\ last = NoCall
    /\ artifactKey = << >>
    /\ perms \in ScanDenials
    \* the files longer than f.read(500) are scanned with the default
    \* configuration on a disk that refuses nothing
    /\ (\E path \in DOMAIN fs : Len(fs[path]) > FilterLen)
          => config = DefaultConfig /\ perms = NoDenials
    /\ BatchIdle
    /\ classification_arg \in ScanClassifications
    /\ pending = DOMAIN fs \cup DirsOf(fs)
    /\ encrypted_count = 0
    /\ skipped_count = 0
    /\ audit_log = << >>
    /\ scan_pc = "scanning"
    /\ PurgeIdle

\* the body of the loop that counts a false result as encrypted
ScanFileMiscounts ==
    /\ scan_pc = "scanning"
    /\ \E file_path \in pending :
         /\ pending' = pending \ {file_path}
         /\ IF \/ ~Exists(fs, file_path)
               \/ ~PassesFilter(fs, perms, classification_arg, file_path)
            THEN UNCHANGED <<hash, fs, last, encrypted_count, skipped_count,
                             audit_log, scan_pc>>
            ELSE \E file_salt \in RunSalts :
                   \E h \in Digests(hash,
                                    EncryptHashInputs(fs, perms, file_path,
                                                      encKey, file_salt)) :
                      LET r == encrypt_file(h, config, fs, perms, file_path,
                                            encKey, file_salt)
                      IN  /\ hash' = h
                          /\ fs' = r.files
                          /\ last' = [op |-> "encrypt", path |-> file_path,
                                      key |-> encKey, ok |-> r.ok,
                                      exc |-> r.exc, raised |-> r.raised,
                                      before |-> fs, producedWith |-> None]
                          /\ audit_log' =
                               log_event_appends(
                                   audit_log, perms,
                                   encrypt_file_events(config, fs, perms,
                                                       file_path))
                          /\ encrypted_count' = encrypted_count + 1
                          /\ UNCHANGED skipped_count
                          /\ scan_pc' =
                               IF r.raised THEN "raised" ELSE "scanning"
    /\ ncalls' = ncalls + 1
    /\ UNCHANGED <<codecVars, config, artifactKey, perms, batchVars,
                   classification_arg, purgeVars>>

\* One pass of the loop over directory.rglob('*'): a path that is no regular
\* file, or a file the classification filter turns down (the open raising
\* included), is passed over; any other file goes to encrypt_file and
\* increments one of the two counters.
ScanFile ==
    /\ scan_pc = "scanning"
    /\ \E file_path \in pending :
         /\ pending' = pending \ {file_path}
         /\ IF \/ ~Exists(fs, file_path)
               \/ ~PassesFilter(fs, perms, classification_arg, file_path)
            THEN UNCHANGED <<hash, fs, last, encrypted_count, skipped_count,
                             audit_log, scan_pc>>
            ELSE \E file_salt \in RunSalts :
                   \E h \in Digests(hash,
                                    EncryptHashInputs(fs, perms, file_path,
                                                      encKey, file_salt)) :
                      LET r == encrypt_file(h, config, fs, perms, file_path,
                                            encKey, file_salt)
                      IN  /\ hash' = h
                          /\ fs' = r.files
                          /\ last' = [op |-> "encrypt", path |-> file_path,
                                      key |-> encKey, ok |-> r.ok,
                                      exc |-> r.exc, raised |-> r.raised,
                                      before |-> fs, producedWith |-> None]
                          /\ audit_log' =
                               log_event_appends(
                                   audit_log, perms,
                                   encrypt_file_events(config, fs, perms,
                                                       file_path))
                          /\ IF r.raised
                             THEN UNCHANGED <<encrypted_count, skipped_count>>
                             ELSE IF r.ok
                             THEN /\ encrypted_count' = encrypted_count + 1
                                  /\ UNCHANGED skipped_count
                             ELSE /\ skipped_count' = skipped_count + 1
                                  /\ UNCHANGED encrypted_count
                          /\ scan_pc' =
                               IF r.raised THEN "raised" ELSE "scanning"
    /\ ncalls' = ncalls + 1
    /\ UNCHANGED <<codecVars, config, artifactKey, perms, batchVars,
                   classification_arg, purgeVars>>

\* return encrypted_count, skipped_count
ScanReturn ==
    /\ scan_pc = "scanning"
    /\ pending = {}
    /\ scan_pc' = "returned"
    /\ UNCHANGED <<hash, codecVars, fs, config, fileVars, batchVars,
                   classification_arg, pending, encrypted_count,
                   skipped_count, audit_log, purgeVars>>

ScanNext == ScanFile \/ ScanReturn

ScanSpec == ScanInit /\ [][ScanNext]_vars

----------------------------------------------------------------------------
(* PurgeSpec: one run of pre_push_hook.py with the purge enabled           *)

\* longest history of the branch that is pushed
MaxCommits == 3
\* largest keep_commits of the configuration
MaxKeep == 2

\* the names a branch of the repository may have
BranchNames == { "main", "dev" }
\* temp_branch = f'shield_temp_{timestamp}'
TempBranch == "shield_temp"
\* f'backup_{timestamp}'
BackupBranch == "backup"

\* the history of a branch, oldest commit first; none if it has no commit
HistoryOf(r, branch) ==
    IF branch \in DOMAIN r.branches THEN r.branches[branch] ELSE << >>
\* every commit a branch of the repository holds
CommitsOf(r) ==
    UNION { { r.branches[b][k] : k \in 1..Len(r.branches[b]) } :
              b \in DOMAIN r.branches }
\* the commit git commit creates: one the repository does not hold
NewCommit(r) ==
    CHOOSE c \in 1..(Cardinality(CommitsOf(r)) + 1) : c \notin CommitsOf(r)
\* r with branch pointing at history
SetBranch(r, branch, history) ==
    [r EXCEPT !.branches =
        [b \in DOMAIN r.branches \cup {branch} |->
            IF b = branch THEN history ELSE r.branches[b]]]
\* r without branch
DropBranch(r, branch) ==
    [r EXCEPT !.branches =
        [b \in DOMAIN r.branches \ {branch} |-> r.branches[b]]]

\* count_commits: git rev-list --count HEAD, 0 if the command fails (as it
\* does on a branch without a commit)
count_commits(r, fails) ==
    IF fails THEN 0 ELSE Len(HistoryOf(r, r.head))

\* get_nth_commit_hash(n): git rev-parse HEAD~n, None if the command fails
\* (as it does when HEAD has no n-th ancestor, or n is negative)
get_nth_commit_hash(r, n, fails) ==
    LET history == HistoryOf(r, r.head)
    IN  IF fails \/ n < 0 \/ n >= Len(history) THEN None
        ELSE <<history[Len(history) - n]>>

\* the configurations load_purge_config may return with 'enabled' set
PurgeConfigs ==
    [keep_commits : 0..MaxKeep, backup_enabled : BOOLEAN,
     fail_safe : BOOLEAN]

\* main has passed the tests of SHIELD_PURGE_DISABLED and config['enabled'];
\* the branch checked out holds the commits 1..n, and the other branch, if
\* there is one, the first of them
PurgeInit ==
    /\ hash = << >>
    /\ plaintext = << >>
    /\ encKey = << >>
    /\ decKey = << >>
    /\ package = None
    /\ decrypted = None
    /\ package2 = None
    /\ decrypted2 = None
    /\ cpc = "file"
    /\ fs = << >>
    /\ config = DefaultConfig
    /\ ncalls = 0
    /\ last = NoCall
    /\ artifactKey = << >>
    /\ perms = NoDenials
    /\ BatchIdle
    /\ ScanIdle
    /\ \E head \in BranchNames, n \in 0..MaxCommits, other \in BOOLEAN :
         repo = [head |-> head,
                 branches |->
                    [b \in { c \in BranchNames :
                               /\ n > 0
                               /\ c = head \/ other } |->
                        IF b = head THEN [k \in 1..n |-> k] ELSE <<1>>]]
    /\ purge_config \in PurgeConfigs
    /\ total_commits = 0
    /\ current_branch = "main"
    /\ new_root_hash = None
    /\ purge_log = << >>
    /\ purge_ret = "none"
    /\ purge_pc = "main"

\* main, lines 188-192: total_commits = count_commits()
MainCount ==
    /\ purge_pc = "main"
    /\ \E fails \in BOOLEAN :
         /\ total_commits' = count_commits(repo, fails)
         /\ IF total_commits' <= purge_config.keep_commits
            THEN /\ purge_log' = Append(purge_log, "No purge needed")
                 /\ purge_pc' = "exit_0"
            ELSE /\ purge_pc' = "backup"
                 /\ UNCHANGED purge_log
    /\ UNCHANGED <<hash, codecVars, fs, config, fileVars, batchVars, scanVars,
                   repo, purge_config, current_branch, new_root_hash,
                   purge_ret>>

\* main, lines 195-205: create_backup writes a bundle beside the repository
MainBackup ==
    /\ purge_pc = "backup"
    /\ IF purge_config.backup_enabled
       THEN \E created \in BOOLEAN :
              IF created
              THEN /\ purge_log' = Append(purge_log, "Backup created")
                   /\ purge_pc' = "purge"
              ELSE IF ~purge_config.fail_safe
              THEN /\ purge_log' =
                        purge_log \o <<"Backup failed",
                                       "Backup failed, aborting purge">>
                   /\ purge_pc' = "exit_1"
              ELSE /\ purge_log' = Append(purge_log, "Backup failed")
                   /\ purge_pc' = "purge"
       ELSE /\ purge_pc' = "purge"
            /\ UNCHANGED purge_log
    /\ UNCHANGED <<hash, codecVars, fs, config, fileVars, batchVars, scanVars,
                   repo, purge_config, total_commits, current_branch,
                   new_root_hash, purge_ret>>

\* purge_old_commits, lines 113-117
PurgeCount ==
    /\ purge_pc = "purge"
    /\ \E fails \in BOOLEAN :
         /\ total_commits' = count_commits(repo, fails)
         /\ IF total_commits' <= purge_config.keep_commits
            THEN /\ purge_log' = Append(purge_log, "No purge needed")
                 /\ purge_ret' = "True"
                 /\ purge_pc' = "returned"
            ELSE /\ purge_pc' = "branch_name"
                 /\ UNCHANGED <<purge_log, purge_ret>>
    /\ UNCHANGED <<hash, codecVars, fs, config, fileVars, batchVars, scanVars,
                   repo, purge_config, current_branch, new_root_hash>>

\* lines 124-133: git rev-parse --abbrev-ref HEAD, 'main' if it fails
PurgeBranchName ==
    /\ purge_pc = "branch_name"
    /\ \E fails \in BOOLEAN :
         current_branch' = IF fails THEN "main" ELSE repo.head
    /\ purge_pc' = "backup_branch"
    /\ UNCHANGED <<hash, codecVars, fs, config, fileVars, batchVars, scanVars,
                   repo, purge_config, total_commits, new_root_hash,
                   purge_log, purge_ret>>

\* line 136: git branch backup_<timestamp>, check=False
PurgeBackupBranch ==
    /\ purge_pc = "backup_branch"
    /\ \E fails \in BOOLEAN :
         repo' = IF fails THEN repo
                 ELSE SetBranch(repo, BackupBranch, HistoryOf(repo, repo.head))
    /\ purge_pc' = "new_root"
    /\ UNCHANGED <<hash, codecVars, fs, config, fileVars, batchVars, scanVars,
                   purge_config, total_commits, current_branch,
                   new_root_hash, purge_log, purge_ret>>

\* lines 139-142: new_root_hash = get_nth_commit_hash(keep_commits - 1)
PurgeNewRoot ==
    /\ purge_pc = "new_root"
    /\ \E fails \in BOOLEAN :
         new_root_hash' =
            get_nth_commit_hash(repo, purge_config.keep_commits - 1, fails)
    /\ IF new_root_hash' = None
       THEN /\ purge_log' =
                 Append(purge_log, "Failed to determine new root commit")
            /\ purge_ret' = "False"
            /\ purge_pc' = "returned"
       ELSE /\ purge_pc' = "patch"
            /\ UNCHANGED <<purge_log, purge_ret>>
    /\ UNCHANGED <<hash, codecVars, fs, config, fileVars, batchVars, scanVars,
                   repo, purge_config, total_commits, current_branch>>

\* A statement of purge_old_commits raises: except Exception logs
\* 'Purge failed' and returns False.
PurgeRaises ==
    /\ purge_log' = Append(purge_log, "Purge failed")
    /\ purge_ret' = "False"
    /\ purge_pc' = "returned"

\* lines 145-150: open(patch_file, 'w') may raise; git diff has check=False
PurgePatch ==
    /\ purge_pc = "patch"
    /\ \E raises \in BOOLEAN :
         IF raises THEN PurgeRaises
         ELSE /\ purge_pc' = "orphan"
              /\ UNCHANGED <<purge_log, purge_ret>>
    /\ UNCHANGED <<hash, codecVars, fs, config, fileVars, batchVars, scanVars,
                   repo, purge_config, total_commits, current_branch,
                   new_root_hash>>

\* line 153: git checkout --orphan temp_branch: HEAD names a branch that has
\* no commit yet
PurgeOrphan ==
    /\ purge_pc = "orphan"
    /\ \E raises \in BOOLEAN :
         IF raises THEN PurgeRaises /\ UNCHANGED repo
         ELSE /\ repo' = [repo EXCEPT !.head = TempBranch]
              /\ purge_pc' = "add"
              /\ UNCHANGED <<purge_log, purge_ret>>
    /\ UNCHANGED <<hash, codecVars, fs, config, fileVars, batchVars, scanVars,
                   purge_config, total_commits, current_branch,
                   new_root_hash>>

\* line 154: git add -A
PurgeAdd ==
    /\ purge_pc = "add"
    /\ \E raises \in BOOLEAN :
         IF raises THEN PurgeRaises
         ELSE /\ purge_pc' = "commit"
              /\ UNCHANGED <<purge_log, purge_ret>>
    /\ UNCHANGED <<hash, codecVars, fs, config, fileVars, batchVars, scanVars,
                   repo, purge_config, total_commits, current_branch,
                   new_root_hash>>

\* line 155: git commit on the orphan branch: one commit without a parent
PurgeCommit ==
    /\ purge_pc = "commit"
    /\ \E raises \in BOOLEAN :
         IF raises THEN PurgeRaises /\ UNCHANGED repo
         ELSE /\ repo' = SetBranch(repo, TempBranch, <<NewCommit(repo)>>)
              /\ purge_pc' = "delete_old"
              /\ UNCHANGED <<purge_log, purge_ret>>
    /\ UNCHANGED <<hash, codecVars, fs, config, fileVars, batchVars, scanVars,
                   purge_config, total_commits, current_branch,
                   new_root_hash>>

\* line 158: git branch -D current_branch, check=False
PurgeDeleteOld ==
    /\ purge_pc = "delete_old"
    /\ \E fails \in BOOLEAN :
         repo' = IF fails THEN repo ELSE DropBranch(repo, current_branch)
    /\ purge_pc' = "rename"
    /\ UNCHANGED <<hash, codecVars, fs, config, fileVars, batchVars, scanVars,
                   purge_config, total_commits, current_branch,
                   new_root_hash, purge_log, purge_ret>>

\* line 159: git branch -m current_branch renames the branch checked out;
\* it fails if a branch of that name exists
PurgeRename ==
    /\ purge_pc = "rename"
    /\ \E fails \in BOOLEAN :
         IF fails \/ current_branch \in DOMAIN repo.branches
         THEN PurgeRaises /\ UNCHANGED repo
         ELSE /\ repo' =
                   [head |-> current_branch,
                    branches |->
                       SetBranch(DropBranch(repo, repo.head), current_branch,
                                 HistoryOf(repo, repo.head)).branches]
              /\ purge_pc' = "gc"
              /\ UNCHANGED <<purge_log, purge_ret>>
    /\ UNCHANGED <<hash, codecVars, fs, config, fileVars, batchVars, scanVars,
                   purge_config, total_commits, current_branch,
                   new_root_hash>>

\* lines 162-167: git gc (check=False) removes no commit a branch holds;
\* the function logs and returns True
PurgeGc ==
    /\ purge_pc = "gc"
    /\ purge_log' = Append(purge_log, "Purged history")
    /\ purge_ret' = "True"
    /\ purge_pc' = "returned"
    /\ UNCHANGED <<hash, codecVars, fs, config, fileVars, batchVars, scanVars,
                   repo, purge_config, total_commits, current_branch,
                   new_root_hash>>

\* main, lines 207-217
MainExit ==
    /\ purge_pc = "returned"
    /\ IF purge_ret = "True"
       THEN /\ purge_log' = Append(purge_log, "History purged successfully")
            /\ purge_pc' = "exit_0"
       ELSE IF purge_config.fail_safe
       THEN /\ purge_log' = Append(purge_log, "Purge failed, allowing push")
            /\ purge_pc' = "exit_0"
       ELSE /\ purge_log' = Append(purge_log, "Purge failed, blocking push")
            /\ purge_pc' = "exit_1"
    /\ UNCHANGED <<hash, codecVars, fs, config, fileVars, batchVars, scanVars,
                   repo, purge_config, total_commits, current_branch,
                   new_root_hash, purge_ret>>

PurgeNext ==
    \/ MainCount
    \/ MainBackup
    \/ PurgeCount
    \/ PurgeBranchName
    \/ PurgeBackupBranch
    \/ PurgeNewRoot
    \/ PurgePatch
    \/ PurgeOrphan
    \/ PurgeAdd
    \/ PurgeCommit
    \/ PurgeDeleteOld
    \/ PurgeRename
    \/ PurgeGc
    \/ MainExit

PurgeSpec == PurgeInit /\ [][PurgeNext]_vars

----------------------------------------------------------------------------
(* Spec: one run of encrypt_and_commit_main_files.py *)

\* sensitive = [Path(it['path']) for it in m if it.get('sensitive')]
sensitive ==
    LET flagged == SelectSeq(manifest, LAMBDA it : it.sensitive)
    IN  [j \in 1..Len(flagged) |-> flagged[j].path]

\* full = ROOT / p
Full(p) == Join(Root, p)
\* full.relative_to(ROOT)
RelativeToRoot(full) == SubSeq(full, Len(Root) + 2, Len(full))
\* enc_path = full.with_suffix(full.suffix + '.enc')
EncPathOf(full) == WithSuffix(full, PathSuffix(full) \o EncSuffix)
\* test_enc = enc_path.parent / (enc_path.name + '.tmp')
\* the copy named 'tmp_<name>.enc' instead, which ends in '.enc'
TestEncOfEndsEnc(enc_path) == Join(ParentOf(enc_path), <<116, 109, 112, 95>> \o NameOf(enc_path))
TestEncOf(enc_path) == Join(ParentOf(enc_path), NameOf(enc_path) \o TmpSuffix)
\* tmp = tmpdir / p.name: the safety store's files are kept by this name
TmpOf(p) == NameOf(p)

Event(op, msg, path) == [op |-> op, msg |-> msg, path |-> path]
Printed(msg, path) == Event("print", msg, path)
Released == [exists |-> FALSE, files |-> << >>]

Init ==
    /\ ScanIdle
    /\ PurgeIdle
    /\ hash = << >>
    /\ plaintext = << >>
    /\ encKey = << >>
    /\ decKey = << >>
    /\ package = None
    /\ decrypted = None
    /\ package2 = None
    /\ decrypted2 = None
    /\ cpc = "batch"
    /\ ncalls = 0
    /\ last = NoCall
    /\ artifactKey = << >>
    /\ perms = NoDenials
    /\ config = DefaultConfig
    /\ passphrase \in CliPassphrases
    /\ manifest \in Manifests
    /\ \E present \in SUBSET { Full(manifest[j].path) : j \in 1..Len(manifest) } :
          fs \in [present -> BatchContents]
    /\ orig = fs
    /\ backup_zip = None
    /\ tmpdir = Released
    /\ verify_tmp = Released
    /\ orig_copies = << >>
    /\ failed = FALSE
    /\ idx = 0
    /\ git = [index |-> {}, head |-> {}, pushed |-> FALSE]
    /\ exitCode = -1
    /\ events = << >>
    /\ corrupted = None
    /\ pc = "start"

\* lines 24-34
CheckPassphrase ==
    /\ pc = "start"
    /\ IF passphrase = None \/ passphrase = << >>
       THEN /\ events' = Append(events, Printed("Passphrase required", << >>))
            /\ exitCode' = 1
            /\ pc' = "done"
       ELSE /\ pc' = "backup"
            /\ UNCHANGED <<events, exitCode>>
    /\ UNCHANGED <<hash, codecVars, scanVars, purgeVars, fs, config, fileVars,
                   passphrase, manifest, orig, backup_zip, tmpdir, verify_tmp,
                   orig_copies, failed, idx, git, corrupted>>

\* line 38: create_repo_backup.py exits non-zero, check=True raises outside
\* the try block and the interpreter exits with status 1
BackupRaises ==
    /\ pc = "backup"
    /\ events' = Append(events, Event("create_backup", "raised", << >>))
    /\ exitCode' = 1
    /\ pc' = "done"
    /\ UNCHANGED <<hash, codecVars, scanVars, purgeVars, fs, config, fileVars,
                   passphrase, manifest, orig, backup_zip, tmpdir, verify_tmp,
                   orig_copies, failed, idx, git, corrupted>>

\* BackupMissing without the test of line 41: the run goes on with no snapshot
BackupMissingIgnored ==
    /\ pc = "backup"
    /\ events' = events \o
                   << Event("create_backup", "", << >>),
                      Printed("No backup found after creation, aborting", << >>) >>
    /\ backup_zip' = << >>
    /\ pc' = "manifest"
    /\ UNCHANGED <<hash, codecVars, scanVars, purgeVars, fs, config, fileVars,
                   passphrase, manifest, orig, tmpdir, verify_tmp, orig_copies,
                   failed, idx, git, exitCode, corrupted>>

\* lines 38-43: the glob over backups/ finds no snapshot
BackupMissing ==
    /\ pc = "backup"
    /\ events' = events \o
                   << Event("create_backup", "", << >>),
                      Printed("No backup found after creation, aborting", << >>) >>
    /\ exitCode' = 1
    /\ pc' = "done"
    /\ UNCHANGED <<hash, codecVars, scanVars, purgeVars, fs, config, fileVars,
                   passphrase, manifest, orig, backup_zip, tmpdir, verify_tmp,
                   orig_copies, failed, idx, git, corrupted>>

\* lines 38-45: the latest snapshot holds the bytes of the files the Backup
\* collaborator archived, by path relative to ROOT
BackupCreated ==
    /\ pc = "backup"
    /\ \E kept \in SUBSET { p \in ManifestPaths : Exists(fs, Full(p)) } :
          backup_zip' = [p \in kept |-> fs[Full(p)]]
    /\ events' = Append(events, Event("create_backup", "", << >>))
    /\ pc' = "manifest"
    /\ UNCHANGED <<hash, codecVars, scanVars, purgeVars, fs, config, fileVars,
                   passphrase, manifest, orig, tmpdir, verify_tmp, orig_copies,
                   failed, idx, git, exitCode, corrupted>>

\* LoadManifest leaving shield.config as config.json gives it
LoadManifestKeepsConfig ==
    /\ pc = "manifest"
    /\ IF sensitive = << >>
       THEN /\ events' = Append(events,
                   Printed("No sensitive files found, nothing to do", << >>))
            /\ exitCode' = 0
            /\ pc' = "done"
            /\ UNCHANGED <<config, tmpdir, idx>>
       \* shield = QuantumShield() loads whatever config.json holds
       ELSE /\ \E loaded \in Configs : config' = loaded
            /\ tmpdir' = [exists |-> TRUE, files |-> << >>]
            /\ idx' = 1
            /\ pc' = "loop"
            /\ UNCHANGED <<events, exitCode>>
    /\ UNCHANGED <<hash, codecVars, scanVars, purgeVars, fs, fileVars,
                   passphrase, manifest, orig, backup_zip, verify_tmp,
                   orig_copies, failed, git, corrupted>>

\* lines 47-62
LoadManifest ==
    /\ pc = "manifest"
    /\ IF sensitive = << >>
       THEN /\ events' = Append(events,
                   Printed("No sensitive files found, nothing to do", << >>))
            /\ exitCode' = 0
            /\ pc' = "done"
            /\ UNCHANGED <<config, tmpdir, idx>>
       \* shield = QuantumShield() loads whatever config.json holds
       ELSE /\ \E loaded \in Configs :
                 config' = [loaded EXCEPT
                               !.delete_original_after_encrypt = FALSE,
                               !.dry_run = FALSE]
            /\ tmpdir' = [exists |-> TRUE, files |-> << >>]
            /\ idx' = 1
            /\ pc' = "loop"
            /\ UNCHANGED <<events, exitCode>>
    /\ UNCHANGED <<hash, codecVars, scanVars, purgeVars, fs, fileVars,
                   passphrase, manifest, orig, backup_zip, verify_tmp,
                   orig_copies, failed, git, corrupted>>

\* CopyOriginal with a missing file setting the flag and ending the loop
CopyOriginalMissingFails ==
    /\ pc = "loop"
    /\ IF idx > Len(sensitive)
       THEN /\ pc' = "after_loop"
            /\ UNCHANGED <<tmpdir, orig_copies, idx, events, failed>>
       ELSE LET p == sensitive[idx]
                full == Full(p)
            IN  IF ~Exists(fs, full)
                THEN /\ events' = Append(events,
                            Printed("Missing file, skipping:", full))
                     /\ failed' = TRUE
                     /\ pc' = "after_loop"
                     /\ UNCHANGED <<tmpdir, orig_copies, idx>>
                ELSE /\ tmpdir' = [tmpdir EXCEPT
                            !.files = WriteFile(@, TmpOf(p), fs[full])]
                     /\ orig_copies' = Append(orig_copies, <<full, TmpOf(p)>>)
                     /\ events' = Append(events, Event("copy2", "", full))
                     /\ pc' = "encrypt"
                     /\ UNCHANGED <<idx, failed>>
    /\ UNCHANGED <<hash, codecVars, scanVars, purgeVars, fs, config, fileVars,
                   passphrase, manifest, orig, backup_zip, verify_tmp, git,
                   exitCode, corrupted>>

\* lines 64-73: the head of the loop, the existence test and the copy of the
\* original into the safety store
CopyOriginal ==
    /\ pc = "loop"
    /\ IF idx > Len(sensitive)
       THEN /\ pc' = "after_loop"
            /\ UNCHANGED <<tmpdir, orig_copies, idx, events>>
       ELSE LET p == sensitive[idx]
                full == Full(p)
            IN  IF ~Exists(fs, full)
                THEN /\ events' = Append(events,
                            Printed("Missing file, skipping:", full))
                     /\ idx' = idx + 1
                     /\ pc' = "loop"
                     /\ UNCHANGED <<tmpdir, orig_copies>>
                ELSE /\ tmpdir' = [tmpdir EXCEPT
                            !.files = WriteFile(@, TmpOf(p), fs[full])]
                     /\ orig_copies' = Append(orig_copies, <<full, TmpOf(p)>>)
                     /\ events' = Append(events, Event("copy2", "", full))
                     /\ pc' = "encrypt"
                     /\ UNCHANGED idx
    /\ UNCHANGED <<hash, codecVars, scanVars, purgeVars, fs, config, fileVars,
                   passphrase, manifest, orig, backup_zip, verify_tmp, failed,
                   git, exitCode, corrupted>>

\* EncryptEntry without the break after a failed encrypt_file
EncryptEntryNoBreak ==
    /\ pc = "encrypt"
    /\ LET full == Full(sensitive[idx])
           enc_path == EncPathOf(full)
       IN  \E file_salt \in RunSalts :
             \E h \in Digests(hash, EncryptHashInputs(fs, perms, full,
                                                      passphrase, file_salt)) :
               LET r == encrypt_file(h, config, fs, perms, full, passphrase,
                                     file_salt)
               IN  /\ hash' = h
                   /\ fs' = r.files
                   /\ IF ~r.ok
                      THEN /\ events' = events \o
                                 << Event("encrypt_file", "", full),
                                    Printed("Encryption failed for", full) >>
                           /\ failed' = TRUE
                           /\ pc' = "git_add"
                      ELSE IF ~Exists(r.files, enc_path)
                      THEN /\ events' = events \o
                                 << Event("encrypt_file", "", full),
                                    Printed("Encrypted file missing for", full) >>
                           /\ failed' = TRUE
                           /\ pc' = "after_loop"
                      ELSE /\ events' = Append(events,
                                               Event("encrypt_file", "", full))
                           /\ pc' = "git_add"
                           /\ UNCHANGED failed
    /\ UNCHANGED <<codecVars, scanVars, purgeVars, config, fileVars,
                   passphrase, manifest, orig, backup_zip, tmpdir, verify_tmp,
                   orig_copies, idx, git, exitCode, corrupted>>

\* lines 75-85
EncryptEntry ==
    /\ pc = "encrypt"
    /\ LET full == Full(sensitive[idx])
           enc_path == EncPathOf(full)
       IN  \E file_salt \in RunSalts :
             \E h \in Digests(hash, EncryptHashInputs(fs, perms, full,
                                                      passphrase, file_salt)) :
               LET r == encrypt_file(h, config, fs, perms, full, passphrase,
                                     file_salt)
               IN  /\ hash' = h
                   /\ fs' = r.files
                   /\ IF ~r.ok
                      THEN /\ events' = events \o
                                 << Event("encrypt_file", "", full),
                                    Printed("Encryption failed for", full) >>
                           /\ failed' = TRUE
                           /\ pc' = "after_loop"
                      ELSE IF ~Exists(r.files, enc_path)
                      THEN /\ events' = events \o
                                 << Event("encrypt_file", "", full),
                                    Printed("Encrypted file missing for", full) >>
                           /\ failed' = TRUE
                           /\ pc' = "after_loop"
                      ELSE /\ events' = Append(events,
                                               Event("encrypt_file", "", full))
                           /\ pc' = "git_add"
                           /\ UNCHANGED failed
    /\ UNCHANGED <<codecVars, scanVars, purgeVars, config, fileVars,
                   passphrase, manifest, orig, backup_zip, tmpdir, verify_tmp,
                   orig_copies, idx, git, exitCode, corrupted>>

\* line 87: git add succeeds
GitAdd ==
    /\ pc = "git_add"
    /\ LET enc_path == EncPathOf(Full(sensitive[idx]))
       IN  /\ git' = [git EXCEPT !.index = @ \cup {enc_path}]
           /\ events' = Append(events, Event("git add", "", enc_path))
    /\ pc' = "git_rm"
    /\ UNCHANGED <<hash, codecVars, scanVars, purgeVars, fs, config, fileVars,
                   passphrase, manifest, orig, backup_zip, tmpdir, verify_tmp,
                   orig_copies, failed, idx, exitCode, corrupted>>

\* line 88: git rm -f succeeds: the path is staged as deleted and the file
\* leaves the working tree
GitRm ==
    /\ pc = "git_rm"
    /\ LET full == Full(sensitive[idx])
       IN  /\ git' = [git EXCEPT !.index = @ \cup {full}]
           /\ fs' = Unlink(fs, full)
           /\ events' = Append(events, Event("git rm", "", full))
    /\ idx' = idx + 1
    /\ pc' = "loop"
    /\ UNCHANGED <<hash, codecVars, scanVars, purgeVars, config, fileVars,
                   passphrase, manifest, orig, backup_zip, tmpdir, verify_tmp,
                   orig_copies, failed, exitCode, corrupted>>

\* a raising git command handled as a failed entry is: flag set, on to line 90
GitRaisesRollsBack ==
    /\ pc \in {"git_add", "git_rm", "commit", "push"}
    /\ events' = Append(events, Event(pc, "raised", << >>))
    /\ failed' = TRUE
    /\ pc' = "after_loop"
    /\ UNCHANGED <<hash, codecVars, scanVars, purgeVars, fs, config, fileVars,
                   passphrase, manifest, orig, backup_zip, tmpdir, verify_tmp,
                   orig_copies, idx, git, exitCode, corrupted>>

\* lines 87, 88, 100, 101: a git command exits non-zero and check=True raises
\* CalledProcessError inside the try block
GitRaises ==
    /\ pc \in {"git_add", "git_rm", "commit", "push"}
    /\ events' = Append(events, Event(pc, "raised", << >>))
    /\ exitCode' = 1
    /\ pc' = "finally"
    /\ UNCHANGED <<hash, codecVars, scanVars, purgeVars, fs, config, fileVars,
                   passphrase, manifest, orig, backup_zip, tmpdir, verify_tmp,
                   orig_copies, failed, idx, git, corrupted>>

\* line 90 letting the run on to the commit whatever the flag
LoopDoneAnyway ==
    /\ pc = "after_loop"
    /\ pc' = "commit"
    /\ UNCHANGED <<hash, codecVars, scanVars, purgeVars, fs, config, fileVars,
                   passphrase, manifest, orig, backup_zip, tmpdir, verify_tmp,
                   orig_copies, failed, idx, git, exitCode, events, corrupted>>

\* line 90, flag clear: on to the commit
LoopDone ==
    /\ pc = "after_loop"
    /\ ~failed
    /\ pc' = "commit"
    /\ UNCHANGED <<hash, codecVars, scanVars, purgeVars, fs, config, fileVars,
                   passphrase, manifest, orig, backup_zip, tmpdir, verify_tmp,
                   orig_copies, failed, idx, git, exitCode, events, corrupted>>

\* lines 94-96: the plaintexts that are missing are copied back, in order
RECURSIVE RestoreOriginals(_, _, _)
RestoreOriginals(files, copies, store) ==
    IF copies = << >> THEN files
    ELSE LET full == copies[1][1]
             tmp == copies[1][2]
         IN  RestoreOriginals(
                 IF ~Exists(files, full) /\ Exists(store, tmp)
                 THEN WriteFile(files, full, store[tmp]) ELSE files,
                 Tail(copies), store)

\* Rollback without the SystemExit(1) of line 97
RollbackNoExit ==
    /\ pc = "after_loop"
    /\ failed
    /\ git' = [git EXCEPT !.index = {}]
    /\ fs' = RestoreOriginals(fs, orig_copies, tmpdir.files)
    /\ events' = events \o
         << Printed("Failure during encryption; aborting and reverting staged changes",
                    << >>),
            Event("git reset", "", << >>),
            Event("restore", "", << >>) >>
    /\ pc' = "finally"
    /\ UNCHANGED <<hash, codecVars, scanVars, purgeVars, config, fileVars,
                   passphrase, manifest, orig, backup_zip, tmpdir, verify_tmp,
                   orig_copies, failed, idx, exitCode, corrupted>>

\* a rollback that also deletes the artifacts the loop staged
RollbackDeletesArtifacts ==
    /\ pc = "after_loop"
    /\ failed
    /\ git' = [git EXCEPT !.index = {}]
    /\ fs' = LET restored == RestoreOriginals(fs, orig_copies, tmpdir.files)
             IN  [q \in { path \in DOMAIN restored :
                            ~EndsWith(path, EncSuffix) } |-> restored[q]]
    /\ events' = events \o
         << Printed("Failure during encryption; aborting and reverting staged changes",
                    << >>),
            Event("git reset", "", << >>),
            Event("restore", "", << >>) >>
    /\ exitCode' = 1
    /\ pc' = "finally"
    /\ UNCHANGED <<hash, codecVars, scanVars, purgeVars, config, fileVars,
                   passphrase, manifest, orig, backup_zip, tmpdir, verify_tmp,
                   orig_copies, failed, idx, corrupted>>

\* lines 90-97: git reset (its status is ignored), the restore, SystemExit(1)
Rollback ==
    /\ pc = "after_loop"
    /\ failed
    /\ git' = [git EXCEPT !.index = {}]
    /\ fs' = RestoreOriginals(fs, orig_copies, tmpdir.files)
    /\ events' = events \o
         << Printed("Failure during encryption; aborting and reverting staged changes",
                    << >>),
            Event("git reset", "", << >>),
            Event("restore", "", << >>) >>
    /\ exitCode' = 1
    /\ pc' = "finally"
    /\ UNCHANGED <<hash, codecVars, scanVars, purgeVars, config, fileVars,
                   passphrase, manifest, orig, backup_zip, tmpdir, verify_tmp,
                   orig_copies, failed, idx, corrupted>>

\* line 100: git commit succeeds, which takes staged changes
GitCommit ==
    /\ pc = "commit"
    /\ git.index # {}
    /\ git' = [git EXCEPT !.head = @ \cup git.index, !.index = {}]
    /\ events' = Append(events, Event("git commit", "", << >>))
    /\ pc' = "push"
    /\ UNCHANGED <<hash, codecVars, scanVars, purgeVars, fs, config, fileVars,
                   passphrase, manifest, orig, backup_zip, tmpdir, verify_tmp,
                   orig_copies, failed, idx, exitCode, corrupted>>

\* lines 101-102: git push succeeds
GitPush ==
    /\ pc = "push"
    /\ git' = [git EXCEPT !.pushed = TRUE]
    /\ events' = events \o
         << Event("git push", "", << >>),
            Printed("Encrypted files committed and pushed", << >>) >>
    /\ pc' = "extract"
    /\ UNCHANGED <<hash, codecVars, scanVars, purgeVars, fs, config, fileVars,
                   passphrase, manifest, orig, backup_zip, tmpdir, verify_tmp,
                   orig_copies, failed, idx, exitCode, corrupted>>

\* data with the lowest bit of byte i flipped
CorruptAt(data, i) == [data EXCEPT ![i] = BitXor(@, 1)]

\* Between the push and the verification pass something outside the run
\* alters the last byte of one committed artifact.
CorruptArtifact ==
    /\ pc = "extract"
    /\ corrupted = None
    /\ \E j \in 1..Len(orig_copies) :
         LET enc_path == EncPathOf(orig_copies[j][1])
         IN  /\ Exists(fs, enc_path)
             /\ fs' = WriteFile(fs, enc_path,
                                 CorruptAt(fs[enc_path], Len(fs[enc_path])))
             /\ corrupted' = enc_path
    /\ UNCHANGED <<hash, codecVars, scanVars, purgeVars, config, fileVars, pc,
                   passphrase, manifest, orig, backup_zip, tmpdir, verify_tmp,
                   orig_copies, failed, idx, git, exitCode, events>>

\* lines 105-107
ExtractBackup ==
    /\ pc = "extract"
    /\ verify_tmp' = [exists |-> TRUE, files |-> backup_zip]
    /\ idx' = 1
    /\ pc' = "verify"
    /\ UNCHANGED <<hash, codecVars, scanVars, purgeVars, fs, config, fileVars,
                   passphrase, manifest, orig, backup_zip, tmpdir, orig_copies,
                   failed, git, exitCode, events, corrupted>>

\* VerifyEntry without the break after a failed decryption
VerifyEntryNoBreak ==
    /\ pc = "verify"
    /\ IF idx > Len(orig_copies)
       THEN /\ pc' = "verify_end"
            /\ UNCHANGED <<hash, fs, failed, idx, exitCode, events>>
       ELSE
         LET full == orig_copies[idx][1]
             tmp == orig_copies[idx][2]
             rel == RelativeToRoot(full)
             enc_path == EncPathOf(full)
             test_enc == TestEncOf(enc_path)
         IN
           IF ~Exists(verify_tmp.files, rel)
           THEN /\ events' = Append(events,
                      Printed("Warning: original not found in backup for", full))
                /\ idx' = idx + 1
                /\ pc' = "verify"
                /\ UNCHANGED <<hash, fs, failed, exitCode>>
           \* shutil.copy2(enc_path, ...) raises FileNotFoundError
           ELSE IF ~Exists(fs, enc_path)
           THEN /\ events' = Append(events, Event("copy2", "raised", enc_path))
                /\ exitCode' = 1
                /\ pc' = "finally"
                /\ UNCHANGED <<hash, fs, failed, idx>>
           ELSE
             LET copied == WriteFile(fs, test_enc, fs[enc_path])
             IN  \E h \in Digests(hash, DecryptFileHashInputs(copied, perms,
                                                              test_enc,
                                                              passphrase)) :
                   LET r == decrypt_file(h, copied, perms, test_enc, passphrase)
                       called == events \o
                                   << Event("copy2", "", test_enc),
                                      Event("decrypt_file", "", test_enc) >>
                   IN  /\ hash' = h
                       /\ IF ~r.ok
                          THEN /\ fs' = r.files
                               /\ events' = Append(called,
                                     Printed("Decryption failed for", enc_path))
                               /\ failed' = TRUE
                               /\ idx' = idx + 1
                               /\ pc' = "verify"
                               /\ UNCHANGED exitCode
                          ELSE IF ~Exists(r.files, full)
                          THEN /\ fs' = r.files
                               /\ events' = Append(called,
                                     Printed("Expected restored file not found for",
                                             full))
                               /\ failed' = TRUE
                               /\ pc' = "verify_end"
                               /\ UNCHANGED <<idx, exitCode>>
                          ELSE IF r.files[full] # verify_tmp.files[rel]
                          THEN /\ fs' = r.files
                               /\ events' = Append(called,
                                     Printed("Verification mismatch for", full))
                               /\ failed' = TRUE
                               /\ pc' = "verify_end"
                               /\ UNCHANGED <<idx, exitCode>>
                          \* shutil.copy2(tmp, full) raises FileNotFoundError
                          ELSE IF ~Exists(tmpdir.files, tmp)
                          THEN /\ fs' = r.files
                               /\ events' = called \o
                                     << Printed("Verified:", full),
                                        Event("copy2", "raised", full) >>
                               /\ exitCode' = 1
                               /\ pc' = "finally"
                               /\ UNCHANGED <<failed, idx>>
                          ELSE /\ fs' = WriteFile(r.files, full, tmpdir.files[tmp])
                               /\ events' = called \o
                                     << Printed("Verified:", full),
                                        Event("copy2", "", full) >>
                               /\ idx' = idx + 1
                               /\ pc' = "verify"
                               /\ UNCHANGED <<failed, exitCode>>
    /\ UNCHANGED <<codecVars, scanVars, purgeVars, config, fileVars,
                   passphrase, manifest, orig, backup_zip, tmpdir, verify_tmp,
                   orig_copies, git, corrupted>>

\* lines 108-143: one pass of the verification loop
VerifyEntry ==
    /\ pc = "verify"
    /\ IF idx > Len(orig_copies)
       THEN /\ pc' = "verify_end"
            /\ UNCHANGED <<hash, fs, failed, idx, exitCode, events>>
       ELSE
         LET full == orig_copies[idx][1]
             tmp == orig_copies[idx][2]
             rel == RelativeToRoot(full)
             enc_path == EncPathOf(full)
             test_enc == TestEncOf(enc_path)
         IN
           IF ~Exists(verify_tmp.files, rel)
           THEN /\ events' = Append(events,
                      Printed("Warning: original not found in backup for", full))
                /\ idx' = idx + 1
                /\ pc' = "verify"
                /\ UNCHANGED <<hash, fs, failed, exitCode>>
           \* shutil.copy2(enc_path, ...) raises FileNotFoundError
           ELSE IF ~Exists(fs, enc_path)
           THEN /\ events' = Append(events, Event("copy2", "raised", enc_path))
                /\ exitCode' = 1
                /\ pc' = "finally"
                /\ UNCHANGED <<hash, fs, failed, idx>>
           ELSE
             LET copied == WriteFile(fs, test_enc, fs[enc_path])
             IN  \E h \in Digests(hash, DecryptFileHashInputs(copied, perms,
                                                              test_enc,
                                                              passphrase)) :
                   LET r == decrypt_file(h, copied, perms, test_enc, passphrase)
                       called == events \o
                                   << Event("copy2", "", test_enc),
                                      Event("decrypt_file", "", test_enc) >>
                   IN  /\ hash' = h
                       /\ IF ~r.ok
                          THEN /\ fs' = r.files
                               /\ events' = Append(called,
                                     Printed("Decryption failed for", enc_path))
                               /\ failed' = TRUE
                               /\ pc' = "verify_end"
                               /\ UNCHANGED <<idx, exitCode>>
                          ELSE IF ~Exists(r.files, full)
                          THEN /\ fs' = r.files
                               /\ events' = Append(called,
                                     Printed("Expected restored file not found for",
                                             full))
                               /\ failed' = TRUE
                               /\ pc' = "verify_end"
                               /\ UNCHANGED <<idx, exitCode>>
                          ELSE IF r.files[full] # verify_tmp.files[rel]
                          THEN /\ fs' = r.files
                               /\ events' = Append(called,
                                     Printed("Verification mismatch for", full))
                               /\ failed' = TRUE
                               /\ pc' = "verify_end"
                               /\ UNCHANGED <<idx, exitCode>>
                          \* shutil.copy2(tmp, full) raises FileNotFoundError
                          ELSE IF ~Exists(tmpdir.files, tmp)
                          THEN /\ fs' = r.files
                               /\ events' = called \o
                                     << Printed("Verified:", full),
                                        Event("copy2", "raised", full) >>
                               /\ exitCode' = 1
                               /\ pc' = "finally"
                               /\ UNCHANGED <<failed, idx>>
                          ELSE /\ fs' = WriteFile(r.files, full, tmpdir.files[tmp])
                               /\ events' = called \o
                                     << Printed("Verified:", full),
                                        Event("copy2", "", full) >>
                               /\ idx' = idx + 1
                               /\ pc' = "verify"
                               /\ UNCHANGED <<failed, exitCode>>
    /\ UNCHANGED <<codecVars, scanVars, purgeVars, config, fileVars,
                   passphrase, manifest, orig, backup_zip, tmpdir, verify_tmp,
                   orig_copies, git, corrupted>>

\* lines 145-149
VerifyEnd ==
    /\ pc = "verify_end"
    /\ IF failed
       THEN /\ events' = Append(events,
                   Printed("Verification failed after push; abort and manual review required",
                           << >>))
            /\ exitCode' = 1
       ELSE /\ events' = Append(events,
                   Printed("Encryption and verification complete and pushed to origin/main",
                           << >>))
            /\ UNCHANGED exitCode
    /\ pc' = "finally"
    /\ UNCHANGED <<hash, codecVars, scanVars, purgeVars, fs, config, fileVars,
                   passphrase, manifest, orig, backup_zip, tmpdir, verify_tmp,
                   orig_copies, failed, idx, git, corrupted>>

\* the finally block without its second rmtree
FinallyKeepsScratch ==
    /\ pc = "finally"
    /\ tmpdir' = Released
    /\ IF exitCode = -1
       THEN /\ events' = Append(events, Printed("Done", << >>))
            /\ exitCode' = 0
       ELSE UNCHANGED <<events, exitCode>>
    /\ pc' = "done"
    /\ UNCHANGED <<hash, codecVars, scanVars, purgeVars, fs, config, fileVars,
                   passphrase, manifest, orig, backup_zip, verify_tmp,
                   orig_copies, failed, idx, git, corrupted>>

\* lines 151-160: the finally block, then 'Done' unless an exit is under way
Finally ==
    /\ pc = "finally"
    /\ tmpdir' = Released
    /\ verify_tmp' = Released
    /\ IF exitCode = -1
       THEN /\ events' = Append(events, Printed("Done", << >>))
            /\ exitCode' = 0
       ELSE UNCHANGED <<events, exitCode>>
    /\ pc' = "done"
    /\ UNCHANGED <<hash, codecVars, scanVars, purgeVars, fs, config, fileVars,
                   passphrase, manifest, orig, backup_zip, orig_copies, failed,
                   idx, git, corrupted>>

Next ==
    \/ CheckPassphrase
    \/ BackupRaises
    \/ BackupMissing
    \/ BackupCreated
    \/ LoadManifest
    \/ CopyOriginal
    \/ EncryptEntry
    \/ GitAdd
    \/ GitRm
    \/ GitRaises
    \/ LoopDone
    \/ Rollback
    \/ GitCommit
    \/ GitPush
    \/ CorruptArtifact
    \/ ExtractBackup
    \/ VerifyEntry
    \/ VerifyEnd
    \/ Finally

Spec == Init /\ [][Next]_vars

----------------------------------------------------------------------------
(* VerifySpec: one run of verify_encrypted_files.py *)

\* tmpdir = ROOT / 'tmp_verify'
VerifyDir ==
    Join(Root, <<116, 109, 112, 95, 118, 101, 114, 105, 102, 121>>)
\* path lies under the directory dir
InDir(dir, path) ==
    /\ Len(path) > Len(dir) + 1
    /\ SubSeq(path, 1, Len(dir) + 1) = dir \o <<47>>
\* shutil.rmtree(dir)
RmTree(files, dir) ==
    [q \in { q \in DOMAIN files : ~InDir(dir, q) } |-> files[q]]
\* zf.extractall(path=dir)
ExtractAll(files, zip, dir) ==
    LET target == { Join(dir, rel) : rel \in DOMAIN zip }
    IN  [q \in DOMAIN files \cup target |->
            IF q \in target
            THEN zip[CHOOSE rel \in DOMAIN zip : q = Join(dir, rel)]
            ELSE files[q]]

\* the items of the manifest: 'x' at the root of the repository, 'a/x' in a
\* directory, and 'c' without the sensitive flag
VerifyItems ==
    { [path |-> <<120>>, sensitive |-> TRUE],
      [path |-> <<97, 47, 120>>, sensitive |-> TRUE],
      [path |-> <<99>>, sensitive |-> FALSE] }
VerifyManifests ==
    { m \in UNION { [1..n -> VerifyItems] : n \in 0..MaxEntries } :
        \A j, k \in 1..Len(m) : m[j].path = m[k].path => j = k }
\* the bytes every original held when it was encrypted, and other bytes
VerifyOriginal == <<59>>
VerifyOther == <<56>>
\* sys.argv[2], None if it is not given
VerifyPassphrases == Passphrases \cup {None}
\* the passphrase the artifacts were made with: 'k1'
VerifyEncKey == <<107, 49>>

\* enc_path = ROOT / (str(rel) + '.enc')
VerifyEncPath(rel) == Join(Root, rel \o EncSuffix)

VerifyInit ==
    /\ ScanIdle
    /\ PurgeIdle
    /\ plaintext = << >>
    /\ encKey = VerifyEncKey
    /\ decKey = << >>
    /\ package = None
    /\ decrypted = None
    /\ package2 = None
    /\ decrypted2 = None
    /\ cpc = "verify"
    /\ ncalls = 0
    /\ last = NoCall
    /\ artifactKey = << >>
    /\ perms = NoDenials
    /\ config = DefaultConfig
    /\ passphrase \in VerifyPassphrases
    /\ manifest \in VerifyManifests
    /\ \E file_salt \in RunSalts :
         \E h \in Digests(<< >>, {Combined(encKey, file_salt)}) :
            LET rels == { manifest[j].path :
                             j \in { k \in 1..Len(manifest) :
                                        manifest[k].sensitive } }
                good == encrypt_data(h, VerifyOriginal, encKey, file_salt)
            IN  /\ hash = h
                /\ \E have \in SUBSET rels :
                      fs \in [{ VerifyEncPath(rel) : rel \in have } ->
                                 {good, Marker}]
                /\ \/ backup_zip = [exists |-> FALSE, files |-> << >>]
                   \/ \E kept \in SUBSET rels :
                         \E held \in [kept -> {VerifyOriginal, VerifyOther}] :
                            backup_zip = [exists |-> TRUE, files |-> held]
    /\ orig = fs
    /\ tmpdir = Released
    /\ verify_tmp = Released
    /\ orig_copies = << >>
    /\ failed = FALSE
    /\ idx = 0
    /\ git = [index |-> {}, head |-> {}, pushed |-> FALSE]
    /\ exitCode = -1
    /\ events = << >>
    /\ corrupted = None
    /\ pc = "v_start"

\* lines 14-23: the argument count and the existence of the backup
VerifyArgs ==
    /\ pc = "v_start"
    /\ IF passphrase = None
       THEN /\ events' = Append(events, Printed("Usage", << >>))
            /\ exitCode' = 1
            /\ pc' = "done"
       ELSE IF ~backup_zip.exists
       THEN /\ events' = Append(events, Printed("Backup not found:", << >>))
            /\ exitCode' = 1
            /\ pc' = "done"
       ELSE /\ pc' = "v_extract"
            /\ UNCHANGED <<events, exitCode>>
    /\ UNCHANGED <<hash, codecVars, scanVars, purgeVars, fs, config, fileVars,
                   passphrase, manifest, orig, backup_zip, tmpdir, verify_tmp,
                   orig_copies, failed, idx, git, corrupted>>

\* lines 33-41: tmp_verify emptied and filled from the archive
VerifyExtract ==
    /\ pc = "v_extract"
    /\ fs' = ExtractAll(RmTree(fs, VerifyDir), backup_zip.files, VerifyDir)
    /\ failed' = FALSE
    /\ idx' = 1
    /\ pc' = "v_loop"
    /\ UNCHANGED <<hash, codecVars, scanVars, purgeVars, config, fileVars,
                   passphrase, manifest, orig, backup_zip, tmpdir, verify_tmp,
                   orig_copies, git, exitCode, events, corrupted>>

\* lines 42-75: one item of the manifest
VerifyItem ==
    /\ pc = "v_loop"
    /\ idx <= Len(manifest)
    /\ idx' = idx + 1
    /\ LET it == manifest[idx]
           rel == it.path
           enc_path == VerifyEncPath(rel)
           test_enc == Join(VerifyDir, NameOf(enc_path))
           restored == WithSuffix(test_enc, << >>)
           orig_from_backup == Join(VerifyDir, rel)
       IN  IF ~it.sensitive
           THEN UNCHANGED <<hash, fs, failed, events>>
           ELSE IF ~Exists(fs, enc_path)
           THEN /\ events' = Append(events, Printed("Missing .enc for", rel))
                /\ failed' = TRUE
                /\ UNCHANGED <<hash, fs>>
           ELSE
             LET copied == WriteFile(fs, test_enc, fs[enc_path])
             IN  \E h \in Digests(hash, DecryptFileHashInputs(copied, perms,
                                                              test_enc,
                                                              passphrase)) :
                   LET r == decrypt_file(h, copied, perms, test_enc, passphrase)
                       called == events \o
                                   << Event("copy2", "", test_enc),
                                      Event("decrypt_file", "", test_enc) >>
                   IN  /\ hash' = h
                       /\ IF ~r.ok
                          THEN /\ fs' = r.files
                               /\ events' = Append(called,
                                     Printed("Decryption failed for", enc_path))
                               /\ failed' = TRUE
                          ELSE IF ~Exists(r.files, orig_from_backup)
                          THEN /\ fs' = r.files
                               /\ events' = Append(called,
                                     Printed("Original not present in backup for",
                                             rel))
                               /\ failed' = TRUE
                          ELSE IF ~Exists(r.files, restored)
                          THEN /\ fs' = r.files
                               /\ events' = Append(called,
                                     Printed("Restored file missing:", restored))
                               /\ failed' = TRUE
                          ELSE IF r.files[restored] = r.files[orig_from_backup]
                          THEN /\ fs' = Unlink(r.files, restored)
                               /\ events' = Append(called,
                                                   Printed("Verified:", rel))
                               /\ UNCHANGED failed
                          ELSE /\ fs' = Unlink(r.files, restored)
                               /\ events' = Append(called,
                                     Printed("Mismatch after decrypt for", rel))
                               /\ failed' = TRUE
    /\ UNCHANGED <<codecVars, scanVars, purgeVars, config, fileVars, pc,
                   passphrase, manifest, orig, backup_zip, tmpdir, verify_tmp,
                   orig_copies, git, exitCode, corrupted>>

\* lines 77-84: tmp_verify removed, the verdict printed, the exit status set
VerifyFinish ==
    /\ pc = "v_loop"
    /\ idx > Len(manifest)
    /\ fs' = RmTree(fs, VerifyDir)
    /\ IF failed
       THEN /\ events' = Append(events,
                   Printed("Verification completed: FAIL", << >>))
            /\ exitCode' = 1
       ELSE /\ events' = Append(events,
                   Printed("Verification completed: SUCCESS", << >>))
            /\ exitCode' = 0
    /\ pc' = "done"
    /\ UNCHANGED <<hash, codecVars, scanVars, purgeVars, config, fileVars,
                   passphrase, manifest, orig, backup_zip, tmpdir, verify_tmp,
                   orig_copies, failed, idx, git, corrupted>>

VerifyNext == VerifyArgs \/ VerifyExtract \/ VerifyItem \/ VerifyFinish

VerifySpec == VerifyInit /\ [][VerifyNext]_vars

----------------------------------------------------------------------------
(* HookSpec: one run of pre_commit_hook.py *)

\* 'TOP_SECRET', 'CONFIDENTIAL', 'RESTRICTED', in the order they are tried
Classifications ==
    << <<84, 79, 80, 95, 83, 69, 67, 82, 69, 84>>,
       <<67, 79, 78, 70, 73, 68, 69, 78, 84, 73, 65, 76>>,
       <<82, 69, 83, 84, 82, 73, 67, 84, 69, 68>> >>
\* f.read(1000)
ClassificationLen == 1000

\* check_file_classification: the first classification found in the first
\* 1000 characters, None if there is none or the file cannot be read
check_file_classification(files, denied, file_path) ==
    IF ~CanRead(files, denied, file_path) THEN None
    ELSE LET content ==
                 SubSeq(files[file_path], 1,
                        IF Len(files[file_path]) < ClassificationLen
                        THEN Len(files[file_path]) ELSE ClassificationLen)
             found == { k \in 1..Len(Classifications) :
                          IsSubstr(Classifications[k], content) }
         IN  IF found = {} THEN None
             ELSE Classifications[CHOOSE k \in found :
                                     \A j \in found : k <= j]

\* the paths git may name, in the order git diff lists them: 'd/s' and
\* 'd/t.enc'
HookPaths ==
    << <<100, 47, 115>>, <<100, 47, 116>> \o EncSuffix >>
\* what a staged file may hold: ';', 'RESTRICTED', and the marker followed by
\* 'TOP_SECRET'
HookContents ==
    { <<59>>, Classifications[3], Marker \o <<10>> \o Classifications[1] }
\* SHIELD_PASSPHRASE, None if it is not set
HookPassphrases == { None, <<107, 49>> }
\* 'min_key_length': 12
MinKeyLength == 12
\* a passphrase typed at the prompt of get_passphrase: twelve times 'k'
HookTyped == [i \in 1..MinKeyLength |-> 107]
\* sys.stdout encodes every symbol or ASCII only; 'd/s.enc' can be written
\* or not
HookDenials ==
    { NoDenials,
      [NoDenials EXCEPT !.unprintable = TRUE],
      [NoDenials EXCEPT !.unwritable = {HookPaths[1] \o EncSuffix}] }

HookInit ==
    /\ ScanIdle
    /\ PurgeIdle
    /\ hash = << >>
    /\ plaintext = << >>
    /\ encKey = << >>
    /\ decKey = << >>
    /\ package = None
    /\ decrypted = None
    /\ package2 = None
    /\ decrypted2 = None
    /\ cpc = "hook"
    /\ ncalls = 0
    /\ last = NoCall
    /\ artifactKey = << >>
    /\ perms \in HookDenials
    /\ config \in Configs
    /\ passphrase \in HookPassphrases
    /\ manifest = << >>
    /\ \E present \in SUBSET { HookPaths[k] : k \in 1..Len(HookPaths) } :
          /\ fs \in [present -> HookContents]
          \* a staged path may have been deleted from the working tree since
          /\ \E staged \in SUBSET { HookPaths[k] : k \in 1..Len(HookPaths) } :
                git = [index |-> staged, head |-> {}, pushed |-> FALSE]
    /\ orig = fs
    /\ backup_zip = None
    /\ tmpdir = Released
    /\ verify_tmp = Released
    /\ orig_copies = << >>
    /\ failed = FALSE
    /\ idx = 0
    /\ exitCode = -1
    /\ events = << >>
    /\ corrupted = None
    /\ pc = "h_import"

\* lines 15-19: the import of quantum_shield.  The print of the ImportError
\* branch is outside every try.
HookImport ==
    /\ pc = "h_import"
    /\ \E importable \in BOOLEAN :
          IF importable
          THEN /\ pc' = "h_main"
               /\ UNCHANGED <<events, exitCode>>
          ELSE IF perms.unprintable
          THEN /\ events' = Append(events,
                      Event("raise", "UnicodeEncodeError", << >>))
               /\ exitCode' = 1
               /\ pc' = "done"
          ELSE /\ events' = Append(events,
                      Printed("Warning: Shield system not available", << >>))
               /\ exitCode' = 0
               /\ pc' = "done"
    /\ UNCHANGED <<hash, codecVars, scanVars, purgeVars, fs, config, fileVars,
                   passphrase, manifest, orig, backup_zip, tmpdir, verify_tmp,
                   orig_copies, failed, idx, git, corrupted>>

\* lines 48-57: the banner, QuantumShield(), get_staged_files()
HookMain ==
    /\ pc = "h_main"
    /\ IF perms.unprintable
       \* print of the banner raises UnicodeEncodeError
       THEN /\ events' = Append(events,
                   Event("raise", "UnicodeEncodeError", << >>))
            /\ pc' = "h_except"
            /\ UNCHANGED <<manifest, idx, exitCode>>
       ELSE \E shield_ok \in BOOLEAN, diff_ok \in BOOLEAN :
              IF ~shield_ok
              \* SHIELD_DIR.mkdir raises
              THEN /\ events' = events \o
                         << Printed("Checking file encryption status", << >>),
                            Event("raise", "OSError", << >>) >>
                   /\ pc' = "h_except"
                   /\ UNCHANGED <<manifest, idx, exitCode>>
              ELSE LET staged_files ==
                           IF diff_ok
                           THEN SelectSeq(HookPaths,
                                          LAMBDA q : q \in git.index)
                           ELSE << >>
                   IN  /\ manifest' = staged_files
                       /\ IF staged_files = << >>
                          THEN /\ events' = events \o
                                     << Printed("Checking file encryption status",
                                                << >>),
                                        Printed("No files to check", << >>) >>
                               /\ exitCode' = 0
                               /\ pc' = "done"
                               /\ UNCHANGED idx
                          ELSE /\ events' = Append(events,
                                     Printed("Checking file encryption status",
                                             << >>))
                               /\ idx' = 1
                               /\ pc' = "h_scan"
                               /\ UNCHANGED exitCode
    /\ UNCHANGED <<hash, codecVars, scanVars, purgeVars, fs, config, fileVars,
                   passphrase, orig, backup_zip, tmpdir, verify_tmp,
                   orig_copies, failed, git, corrupted>>

\* lines 59-73: one staged file
HookScan ==
    /\ pc = "h_scan"
    /\ idx <= Len(manifest)
    /\ idx' = idx + 1
    /\ LET file_path == manifest[idx]
           classification == check_file_classification(fs, perms, file_path)
       IN  orig_copies' =
              IF /\ Exists(fs, file_path)
                 /\ ~should_exclude(file_path)
                 /\ classification # None
                 /\ ~is_encrypted(fs, perms, file_path)
                 /\ ~EndsWith(file_path, EncSuffix)
              THEN Append(orig_copies, <<file_path, classification>>)
              ELSE orig_copies
    /\ UNCHANGED <<hash, codecVars, scanVars, purgeVars, fs, config, fileVars,
                   pc, passphrase, manifest, orig, backup_zip, tmpdir,
                   verify_tmp, failed, git, exitCode, events, corrupted>>

\* lines 75-86 and 98-104: the report, SHIELD_AUTO_ENCRYPT, the passphrase
HookReport ==
    /\ pc = "h_scan"
    /\ idx > Len(manifest)
    /\ IF orig_copies = << >>
       THEN /\ events' = Append(events,
                   Printed("All sensitive files are encrypted", << >>))
            /\ exitCode' = 0
            /\ pc' = "done"
            /\ UNCHANGED <<passphrase, idx>>
       ELSE \E auto_encrypt \in BOOLEAN :
              IF ~auto_encrypt
              THEN /\ events' = events \o
                         << Printed("Found unencrypted sensitive files", << >>),
                            Printed("Auto-encryption is disabled by default",
                                    << >>) >>
                   /\ exitCode' = 0
                   /\ pc' = "done"
                   /\ UNCHANGED <<passphrase, idx>>
              ELSE IF passphrase # None
              THEN /\ events' = events \o
                         << Printed("Found unencrypted sensitive files", << >>),
                            Printed("Auto-encrypting files", << >>) >>
                   /\ idx' = 1
                   /\ pc' = "h_encrypt"
                   /\ UNCHANGED <<passphrase, exitCode>>
              \* get_passphrase: getpass returns what is typed, or raises
              \* EOFError when there is nothing to read
              ELSE \E typed \in {None, HookTyped} :
                     IF typed = None
                     THEN /\ events' = events \o
                                << Printed("Found unencrypted sensitive files",
                                           << >>),
                                   Printed("Auto-encrypting files", << >>),
                                   Event("raise", "EOFError", << >>) >>
                          /\ pc' = "h_except"
                          /\ UNCHANGED <<passphrase, idx, exitCode>>
                     ELSE /\ events' = events \o
                                << Printed("Found unencrypted sensitive files",
                                           << >>),
                                   Printed("Auto-encrypting files", << >>) >>
                          /\ passphrase' = typed
                          /\ idx' = 1
                          /\ pc' = "h_encrypt"
                          /\ UNCHANGED exitCode
    /\ UNCHANGED <<hash, codecVars, scanVars, purgeVars, fs, config, fileVars,
                   manifest, orig, backup_zip, tmpdir, verify_tmp, orig_copies,
                   failed, git, corrupted>>

\* lines 89-94: encrypt_file on one file of the list, then git add and
\* git reset, whose failures are ignored (check=False)
HookEncrypt ==
    /\ pc = "h_encrypt"
    /\ idx <= Len(orig_copies)
    /\ idx' = idx + 1
    /\ LET file_path == orig_copies[idx][1]
           encrypted_path == file_path \o EncSuffix
       IN  \E file_salt \in RunSalts :
             \E h \in Digests(hash, EncryptHashInputs(fs, perms, file_path,
                                                      passphrase, file_salt)) :
               LET r == encrypt_file(h, config, fs, perms, file_path,
                                     passphrase, file_salt)
               IN  /\ hash' = h
                   /\ fs' = r.files
                   /\ IF r.ok
                      THEN /\ \E added \in BOOLEAN, reset \in BOOLEAN :
                                git' = [git EXCEPT !.index =
                                          (IF added
                                           THEN git.index \cup {encrypted_path}
                                           ELSE git.index)
                                             \ (IF reset THEN {file_path}
                                                ELSE {})]
                           /\ events' = events \o
                                 << Event("encrypt_file", "", file_path),
                                    Event("git add", "", encrypted_path),
                                    Event("git reset", "", file_path) >>
                      ELSE /\ events' = Append(events,
                                 Event("encrypt_file", "failed", file_path))
                           /\ UNCHANGED git
    /\ UNCHANGED <<codecVars, scanVars, purgeVars, config, fileVars, pc,
                   passphrase, manifest, orig, backup_zip, tmpdir, verify_tmp,
                   orig_copies, failed, exitCode, corrupted>>

\* lines 96-107 and 111: the count printed, return 0, sys.exit(0)
HookDone ==
    /\ pc = "h_encrypt"
    /\ idx > Len(orig_copies)
    /\ events' = Append(events, Printed("Auto-encrypted files", << >>))
    /\ exitCode' = 0
    /\ pc' = "done"
    /\ UNCHANGED <<hash, codecVars, scanVars, purgeVars, fs, config, fileVars,
                   passphrase, manifest, orig, backup_zip, tmpdir, verify_tmp,
                   orig_copies, failed, idx, git, corrupted>>

\* lines 112-115: except Exception prints a warning sign and the error, then
\* sys.exit(0); the print is itself outside every try
HookExcept ==
    /\ pc = "h_except"
    /\ IF perms.unprintable
       THEN /\ events' = Append(events,
                   Event("raise", "UnicodeEncodeError", << >>))
            /\ exitCode' = 1
       ELSE /\ events' = Append(events, Printed("Shield check failed", << >>))
            /\ exitCode' = 0
    /\ pc' = "done"
    /\ UNCHANGED <<hash, codecVars, scanVars, purgeVars, fs, config, fileVars,
                   passphrase, manifest, orig, backup_zip, tmpdir, verify_tmp,
                   orig_copies, failed, idx, git, corrupted>>

HookNext ==
    \/ HookImport
    \/ HookMain
    \/ HookScan
    \/ HookReport
    \/ HookEncrypt
    \/ HookDone
    \/ HookExcept

HookSpec == HookInit /\ [][HookNext]_vars

----------------------------------------------------------------------------
(* C1: decrypt_data(encrypt_data(P, K), K) returns exactly P, for every    *)
(* plaintext P (the empty one and those holding '::' included), every      *)
(* passphrase K and every salt encrypt_data generated.                     *)
C1_RoundTrip ==
    (cpc = "decrypted" /\ encKey = decKey) => decrypted = plaintext

\* a plaintext holding '::' has made the round trip
C1_Witness ==
    /\ cpc = "decrypted"
    /\ encKey = decKey
    /\ IsSubstr(Sep, plaintext)
    /\ decrypted = plaintext

----------------------------------------------------------------------------
(* What a finished batch run shows *)

HasEvent(op, msg) ==
    \E k \in 1..Len(events) : events[k].op = op /\ events[k].msg = msg
HasEventAt(op, msg, path) ==
    \E k \in 1..Len(events) : events[k] = Event(op, msg, path)

SensitivePaths == { sensitive[j] : j \in 1..Len(sensitive) }

\* the entry's artifact is in the working tree and the commit holds both
\* the artifact and the removal of the plaintext
EntryCommitted(p) ==
    /\ Exists(fs, EncPathOf(Full(p)))
    /\ EncPathOf(Full(p)) \in git.head
    /\ Full(p) \in git.head
\* the verification pass printed 'Verified:' for the entry
EntryVerified(p) == HasEventAt("print", "Verified:", Full(p))
\* the verification pass printed a failure for the entry
EntryReportedFailed(p) ==
    \/ HasEventAt("print", "Decryption failed for", EncPathOf(Full(p)))
    \/ HasEventAt("print", "Verification mismatch for", Full(p))
    \/ HasEventAt("print", "Expected restored file not found for", Full(p))
\* the plaintext of the entry is in the working tree with its first bytes
PlaintextIntact(p) ==
    Exists(orig, Full(p)) =>
        (Exists(fs, Full(p)) /\ fs[Full(p)] = orig[Full(p)])

NoPassphrase == passphrase = None \/ passphrase = << >>
NoBackupFound ==
    HasEvent("print", "No backup found after creation, aborting")
EncryptionFailed ==
    \/ HasEvent("print", "Encryption failed for")
    \/ HasEvent("print", "Encrypted file missing for")
CommitOrPushFailed == HasEvent("commit", "raised") \/ HasEvent("push", "raised")
VerificationFailed ==
    HasEvent("print",
             "Verification failed after push; abort and manual review required")

\* (a) of the batch contract: everything encrypted, committed, pushed, verified
FullyCommitted ==
    /\ git.pushed
    /\ \A p \in SensitivePaths : EntryCommitted(p) /\ EntryVerified(p)
\* (b) of the batch contract: nothing committed, nothing staged, plaintexts back
FullyRolledBack ==
    /\ git.head = {}
    /\ git.index = {}
    /\ \A p \in SensitivePaths : PlaintextIntact(p)

----------------------------------------------------------------------------
(* C2: whenever a batch run terminates, exactly one of two outcomes holds: *)
(* every sensitive entry is encrypted, staged, committed, pushed and       *)
(* verified, or nothing was committed, no entry is left staged and every   *)
(* plaintext is in the working tree with its pre-batch bytes.              *)
C2_AllOrNothing ==
    (pc = "done" /\ sensitive # << >>) =>
        /\ FullyCommitted \/ FullyRolledBack
        /\ ~(FullyCommitted /\ FullyRolledBack)

(* C3: if encryption of the i-th sensitive entry fails, no commit and no   *)
(* push is performed, entries 1..i-1 are unstaged and the plaintext of     *)
(* each of them is back in the working tree with its original bytes.       *)
C3_FailureRollsBack ==
    (pc = "done" /\ EncryptionFailed) =>
        /\ git.head = {}
        /\ ~git.pushed
        /\ git.index = {}
        /\ \A j \in 1..(idx - 1) : PlaintextIntact(sensitive[j])

(* C4: in a run where every sensitive entry was encrypted, staged,         *)
(* committed and pushed and nothing was altered afterwards, verification   *)
(* succeeds for every entry and the run ends with exit code 0.             *)
C4_VerificationSucceeds ==
    (/\ pc = "done"
     /\ git.pushed
     /\ corrupted = None
     /\ \A p \in SensitivePaths : EntryCommitted(p) /\ p \in DOMAIN backup_zip)
        => (exitCode = 0 /\ \A p \in SensitivePaths : EntryVerified(p))

(* C5: if exactly one committed artifact is corrupted before the          *)
(* verification pass, verification reports that entry and no uncorrupted  *)
(* entry as failed, and the run ends as failed.                           *)
C5_ReportsTheCorruptedEntry ==
    (/\ pc = "done"
     /\ corrupted # None
     /\ \A p \in SensitivePaths : EntryCommitted(p) /\ p \in DOMAIN backup_zip)
        => /\ exitCode = 1
           /\ \A p \in SensitivePaths :
                 EntryReportedFailed(p) <=> EncPathOf(Full(p)) = corrupted

C7_NoSnapshotAborts ==
    NoBackupFound =>
        /\ pc = "done"
        /\ exitCode = 1
        /\ fs = orig
        /\ ~tmpdir.exists
        /\ tmpdir.files = << >>
        /\ orig_copies = << >>
        /\ git = [index |-> {}, head |-> {}, pushed |-> FALSE]
        /\ \A k \in 1..Len(events) :
              events[k].op \in {"print", "create_backup"}

\* the run was aborted for want of a snapshot with sensitive files at hand
C7_Witness ==
    /\ NoBackupFound
    /\ pc = "done"
    /\ \E p \in SensitivePaths : Exists(fs, Full(p))

(* C8: for every sensitive entry the coordinator mutates, a copy of its    *)
(* original bytes is placed in the safety store before encrypt_file or     *)
(* git rm is invoked on it, and whenever rollback reads the copy it still  *)
(* holds that entry's original bytes.                                      *)
C8_SafetyCopyHolds ==
    /\ \A k \in 1..Len(events) :
          events[k].op \in {"encrypt_file", "git rm"} =>
             \E j \in 1..(k - 1) : events[j] = Event("copy2", "", events[k].path)
    /\ (pc = "after_loop" /\ failed) =>
          \A k \in 1..Len(orig_copies) :
             /\ Exists(tmpdir.files, orig_copies[k][2])
             /\ tmpdir.files[orig_copies[k][2]] = orig[orig_copies[k][1]]

(* C9: decrypt_file called with a passphrase other than the one the        *)
(* artifact was encrypted with returns false, writes no plaintext file and *)
(* leaves the artifact in place.                                           *)
C9_WrongPassphraseRejected ==
    (/\ last.op = "decrypt"
     /\ last.producedWith # None
     /\ last.key # last.producedWith)
        => (~last.ok /\ fs = last.before)

(* C10: decrypt_data(encrypt_data(P, K1), K2) differs from P whenever K1    *)
(* differs from K2, for P of length 0 and of length 1 as well.             *)
C10_WrongKeyDiffers ==
    (cpc = "decrypted" /\ encKey # decKey) => decrypted # plaintext

\* the first 100 bytes of the file at path hold the marker
BearsMarker(files, path) ==
    /\ path \in DOMAIN files
    /\ \E i \in 1..Len(files[path]) :
          /\ i + Len(Marker) - 1 <= 100
          /\ i + Len(Marker) - 1 <= Len(files[path])
          /\ SubSeq(files[path], i, i + Len(Marker) - 1) = Marker

(* C11: with delete_original_after_encrypt disabled, for a non-excluded    *)
(* file that does not bear the marker, encrypt_file(path, K) followed by   *)
(* decrypt_file(path + '.enc', K) both return true, leave the file at path *)
(* with its original bytes and leave no artifact path + '.enc' on disk.    *)
C11_FileRoundTrip ==
    [][ (/\ last.op = "encrypt"
         /\ ~config.delete_original_after_encrypt
         /\ ~should_exclude(last.path)
         /\ last.path \in DOMAIN last.before
         /\ ~BearsMarker(last.before, last.path)
         /\ last'.op = "decrypt"
         /\ last'.path = last.path \o EncSuffix
         /\ last'.key = last.key)
        => (/\ last.ok
            /\ last'.ok
            /\ last.path \in DOMAIN fs'
            /\ fs'[last.path] = last.before[last.path]
            /\ (last.path \o EncSuffix) \notin DOMAIN fs') ]_vars

\* a file holding ';8' was encrypted and its artifact decrypted with the
\* passphrase it was made with
C11_Witness ==
    /\ last.op = "decrypt"
    /\ last.ok
    /\ last.producedWith = last.key
    /\ ~config.delete_original_after_encrypt
    /\ last.path \notin DOMAIN fs
    /\ \E path \in FilePaths :
          /\ last.path = path \o EncSuffix
          /\ path \in DOMAIN last.before
          /\ path \in DOMAIN fs
          /\ fs[path] = <<59, 56>>

(* C12, as stated: encrypt_file applied to a file whose first 100 bytes    *)
(* contain the marker returns true and changes nothing on disk, however    *)
(* many times the call is repeated.                                        *)
C12_MarkedIsNoOpSuccess ==
    (last.op = "encrypt" /\ BearsMarker(last.before, last.path))
        => (last.ok /\ fs = last.before)

(* C12, amended: encrypt_file applied to a file whose first 100 bytes      *)
(* contain the marker changes nothing on disk, and returns true unless the *)
(* path is excluded, in which case it returns false.                       *)
C12_MarkedIsNoOp ==
    (last.op = "encrypt" /\ BearsMarker(last.before, last.path))
        => (/\ fs = last.before
            /\ last.ok = ~should_exclude(last.path))

\* the second of two calls was encrypt_file on a non-excluded file that bore
\* the marker from the start
C12_Witness ==
    /\ ncalls >= 2
    /\ last.op = "encrypt"
    /\ last.path \in FilePaths
    /\ ~should_exclude(last.path)
    /\ BearsMarker(last.before, last.path)
    /\ last.ok

(* C13: for every package produced by encrypt_data, changing any single    *)
(* byte of the marker field to any other byte value makes decrypt_data     *)
(* return None, for every key.                                             *)
C13_MarkerTamperRejected ==
    cpc = "tampered_decrypted" => decrypted = None

\* the last byte of the marker field, next to the separator, became ':' and
\* the package was decrypted with the passphrase that made it
C13_Witness ==
    /\ cpc = "tampered_decrypted"
    /\ package[Len(Marker)] = 58
    /\ decKey = encKey
    /\ decrypted = None

(* C19: two calls of encrypt_data with the same plaintext P and the same   *)
(* key K return two different packages, and decrypt_data with K returns P  *)
(* for both.                                                               *)
C19_SaltFreshness ==
    cpc = "decrypted2" =>
        /\ package # package2
        /\ decrypted = plaintext
        /\ decrypted2 = plaintext

\* both packages of b'::;' were decrypted
C19_Witness ==
    /\ cpc = "decrypted2"
    /\ plaintext = <<58, 58, 59>>
    /\ package # package2
    /\ decrypted = plaintext
    /\ decrypted2 = plaintext

(* C14: encrypt_file and decrypt_file never raise: for every input         *)
(* (excluded path, missing or unreadable file, unwritable target,          *)
(* malformed artifact) each returns a boolean, and any internal failure is *)
(* converted into the result false.                                        *)
C14_NeverRaises ==
    last.op # "none" =>
        /\ ~last.raised
        /\ last.ok \in BOOLEAN
        /\ last.exc => ~last.ok

\* a call failed inside (a refused open or unlink) while the audit log could
\* not be written either, and returned false
C14_Witness ==
    /\ last.op \in {"encrypt", "decrypt"}
    /\ last.exc
    /\ perms.log_unwritable
    /\ ~last.raised
    /\ ~last.ok

(* C15: on every exit path of a batch run after the safety store was       *)
(* created (success, encryption failure with rollback, version-control     *)
(* exception, verification failure), the safety store directory and, if it *)
(* was created, the verification scratch directory have been released when *)
(* the run ends.                                                           *)
C15_StoresReleased ==
    \* idx leaves 0 at the statement after mkdtemp(prefix='shield-')
    (pc = "done" /\ idx > 0) => (~tmpdir.exists /\ ~verify_tmp.exists)

\* a run that got as far as extracting the snapshot ended with a failed
\* verification and both directories gone
C15_Witness ==
    /\ pc = "done"
    /\ idx > 0
    /\ VerificationFailed
    /\ exitCode = 1
    /\ ~tmpdir.exists
    /\ ~verify_tmp.exists

(* C16: after the verification pass ends (successfully or not), the        *)
(* working tree is exactly as committed: for every entry the plaintext     *)
(* file is absent and the encrypted artifact is present and unchanged, and *)
(* verification has added no other file to the working tree.               *)
C16_VerificationLeavesTree ==
    [][ pc = "verify" =>
          /\ fs' = fs
          /\ pc' = "verify_end" =>
                \A k \in 1..Len(orig_copies) :
                   /\ ~Exists(fs', orig_copies[k][1])
                   /\ Exists(fs', EncPathOf(orig_copies[k][1])) ]_vars

(* C17: verify_encrypted_files exits 0 (SUCCESS) only if every sensitive   *)
(* manifest entry has an artifact that decrypts with the given passphrase  *)
(* to bytes equal to that entry's original in the backup archive; a        *)
(* missing artifact, a decryption failure, a missing backup original or a  *)
(* byte difference for any entry (including an entry at the repository     *)
(* root) leads to exit 1.                                                  *)
C17_VerifyExitZeroOnlyIfAllMatch ==
    (pc = "done" /\ exitCode = 0) =>
        \A j \in 1..Len(manifest) :
           manifest[j].sensitive =>
              LET rel == manifest[j].path
                  enc_path == Join(Root, rel \o EncSuffix)
              IN  /\ enc_path \in DOMAIN fs
                  /\ rel \in DOMAIN backup_zip.files
                  /\ decrypt_data(hash, fs[enc_path], passphrase)
                        = backup_zip.files[rel]

(* C18: the pre-commit hook never blocks a commit: its process exit status *)
(* is 0 on every path, whether there are no staged files, unencrypted      *)
(* sensitive files are found, auto-encryption fails, or an exception is    *)
(* raised.                                                                 *)
C18_HookExitsZero ==
    pc = "done" => exitCode = 0

\* event k is an invocation of git commit / of git push, raising or not
CommitInvokedAt(k) == events[k].op \in {"git commit", "commit"}
PushInvokedAt(k) == events[k].op \in {"git push", "push"}
\* event k sets the failure flag in the encryption loop
FlagSetAt(k) ==
    /\ events[k].op = "print"
    /\ events[k].msg \in {"Encryption failed for", "Encrypted file missing for"}
\* event k belongs to the verification pass
VerificationAt(k) ==
    \/ events[k].op = "decrypt_file"
    \/ /\ events[k].op = "print"
       /\ events[k].msg \in {"Warning: original not found in backup for",
                             "Decryption failed for", "Verified:",
                             "Verification mismatch for",
                             "Expected restored file not found for"}
\* event k belongs to the rollback
RollbackAt(k) == events[k].op \in {"git reset", "restore"}
\* the entry at full was encrypted and its artifact staged before event k
EncryptedAndStagedBefore(full, k) ==
    /\ \E j \in 1..(k - 1) : events[j] = Event("encrypt_file", "", full)
    /\ \E j \in 1..(k - 1) : events[j] = Event("git add", "", EncPathOf(full))

\* push only after commit, verification only after push, no rollback after
\* commit, and the positions of the script in their order
OrderAfterCommit ==
    /\ \A k \in 1..Len(events) :
          /\ CommitInvokedAt(k) => \A j \in 1..(k - 1) : ~FlagSetAt(j)
          /\ PushInvokedAt(k) =>
                \E j \in 1..(k - 1) : events[j] = Event("git commit", "", << >>)
          /\ VerificationAt(k) =>
                \E j \in 1..(k - 1) : events[j] = Event("git push", "", << >>)
          /\ RollbackAt(k) => \A j \in 1..(k - 1) : ~CommitInvokedAt(j)
    /\ pc \in {"push"} => HasEvent("git commit", "")
    /\ pc \in {"extract", "verify", "verify_end"} => git.pushed
    /\ pc = "commit" => ~failed

MissingAt(k) == events[k].op = "print" /\ events[k].msg = "Missing file, skipping:"
\* event k copies, encrypts, stages or removes an entry, or invokes commit
ProcessingAt(k) ==
    events[k].op \in {"copy2", "encrypt_file", "git add", "git rm",
                      "git commit", "commit"}
\* the loop is at a sensitive entry whose source file is missing
AtMissingEntry ==
    /\ pc = "loop"
    /\ idx <= Len(sensitive)
    /\ ~Exists(fs, Full(sensitive[idx]))
\* the loop is at a sensitive entry whose source file exists
AtPresentEntry ==
    /\ pc = "loop"
    /\ idx <= Len(sensitive)
    /\ Exists(fs, Full(sensitive[idx]))

C22_SafetyStorePathKeyed ==
    /\ \A j, k \in 1..Len(orig_copies) :
          orig_copies[j][1] # orig_copies[k][1] =>
             orig_copies[j][2] # orig_copies[k][2]
    /\ tmpdir.exists =>
          \A k \in 1..Len(orig_copies) :
             /\ Exists(tmpdir.files, orig_copies[k][2])
             /\ tmpdir.files[orig_copies[k][2]] = orig[orig_copies[k][1]]

\* event k reports a failure of the verification of one entry
VerifyFailAt(k) ==
    /\ events[k].op = "print"
    /\ events[k].msg \in {"Decryption failed for", "Verification mismatch for",
                          "Expected restored file not found for"}
\* event k reports an entry that has no counterpart in the backup
BackupWarnAt(k) ==
    /\ events[k].op = "print"
    /\ events[k].msg = "Warning: original not found in backup for"
\* event k belongs to the verification of one entry
VerifyStepAt(k) == VerificationAt(k) \/ events[k].op = "copy2"

C24_EncryptStopsOnFirstFailure ==
    \A k \in 1..Len(events) :
       FlagSetAt(k) =>
          /\ failed
          /\ \A j \in (k + 1)..Len(events) :
                events[j].op \notin {"copy2", "encrypt_file", "git add",
                                     "git rm"}
          /\ \A j \in 1..Len(events) :
                /\ events[j] # Event("git add", "", EncPathOf(events[k].path))
                /\ events[j] # Event("git rm", "", events[k].path)
          /\ pc \notin {"loop", "encrypt", "git_add", "git_rm", "commit",
                        "push", "extract", "verify", "verify_end"}

\* the first of two entries failed and the second, whose file exists, was
\* left alone
C24_Witness ==
    /\ pc = "done"
    /\ Len(sensitive) = 2
    /\ Exists(orig, Full(sensitive[2]))
    /\ \E k \in 1..Len(events) :
          FlagSetAt(k) /\ events[k].path = Full(sensitive[1])

\* the bytes of a package after marker, version, salt and their separators
CiphertextOf(encrypted_package) ==
    SubSeq(encrypted_package,
           Len(Marker) + Len(Version) + SaltHexLen + 3 * Len(Sep) + 1,
           Len(encrypted_package))
\* the salt field of a package, by its position
SaltFieldOf(encrypted_package) ==
    SubSeq(encrypted_package,
           Len(Marker) + Len(Version) + 2 * Len(Sep) + 1,
           Len(Marker) + Len(Version) + 2 * Len(Sep) + SaltHexLen)

(* C25: for a plaintext of length N and derived key of length L,           *)
(* encrypt_data's ciphertext has length N and its byte i equals            *)
(* P[i] XOR key[i mod L] XOR key[(N-1-i) mod L] XOR ((i+1) mod 256) for    *)
(* every i in 0..N-1.                                                      *)
C25_LayeredXor ==
    package # None =>
       LET c == CiphertextOf(package)
           key == hash[Combined(encKey, SaltFieldOf(package))]
           N == Len(plaintext)
           L == Len(key)
       IN  /\ Len(c) = N
           /\ \A i \in 0..(N - 1) :
                 c[i + 1] =
                    BitXor(BitXor(BitXor(plaintext[i + 1], key[(i % L) + 1]),
                                  key[((N - 1 - i) % L) + 1]),
                           (i + 1) % 256)

\* a plaintext of 257 bytes was encrypted (the position factor wrapped to 0
\* at i = 255) with a key whose two bytes differ
C25_Witness ==
    /\ cpc = "encrypted"
    /\ Len(plaintext) = 257
    /\ LET key == hash[Combined(encKey, SaltFieldOf(package))]
       IN  key[1] # key[2]

(* C26: every package produced by encrypt_data is MARKER '::' 'v1.0' '::'  *)
(* SALT_HEX (64 characters) '::' CIPHERTEXT, and decrypt_data splits it    *)
(* into exactly the 4 fields encrypt_data wrote: the ciphertext field      *)
(* parsed equals the ciphertext emitted, also when the ciphertext contains *)
(* or begins with the separator bytes '::' or ':'.                         *)
C26_PackageFields ==
    package # None =>
       LET parts == PackageParts(package)
       IN  /\ Len(parts) = 4
           /\ parts[1] = Marker
           /\ parts[2] = Version
           /\ Len(parts[3]) = 64
           /\ parts[3] \in Salts
           /\ Len(parts[4]) = Len(plaintext)
           /\ parts[4] = CiphertextOf(package)
           /\ package = parts[1] \o Sep \o parts[2] \o Sep \o parts[3]
                           \o Sep \o parts[4]

\* a package whose ciphertext begins with '::'
C26_Witness ==
    /\ cpc = "encrypted"
    /\ Len(plaintext) >= 2
    /\ CiphertextOf(package)[1] = 58
    /\ CiphertextOf(package)[2] = 58

\* the input does not split into exactly 4 fields on '::', or its marker
\* field differs from the configured marker, or its marker or salt field is
\* not valid UTF-8
MalformedPackage(encrypted_package) ==
    LET parts == Split(encrypted_package, Sep, MaxSplit)
    IN  \/ Len(parts) # 4
        \/ parts[1] # Marker
        \/ ~Utf8Valid(parts[1])
        \/ ~Utf8Valid(parts[3])

(* C27: decrypt_data returns null (None) and never raises for every input  *)
(* that does not split into exactly 4 fields on '::', whose marker field   *)
(* differs from the configured marker, or whose marker or salt field is    *)
(* not valid UTF-8.                                                        *)
C27_MalformedGivesNone ==
    (cpc = "malformed_decrypted" /\ MalformedPackage(package)) =>
       (decrypted = None /\ ~last.raised)

\* decrypt_data met a package of 4 fields with the right marker and a salt
\* that is not UTF-8: decode raised inside the try
C27_Witness ==
    /\ cpc = "malformed_decrypted"
    /\ MalformedPackage(package)
    /\ Len(Split(package, Sep, MaxSplit)) = 4
    /\ Split(package, Sep, MaxSplit)[1] = Marker
    /\ last.exc

\* the last call was decrypt_file on a path that does not end in '.enc'
LastNotAnArtifactPath ==
    /\ last.op = "decrypt"
    /\ ~EndsWith(last.path, EncSuffix)
\* the last call was decrypt_file on a readable file for which decrypt_data
\* returned None
LastDecryptDataNone ==
    /\ last.op = "decrypt"
    /\ EndsWith(last.path, EncSuffix)
    /\ CanRead(last.before, perms, last.path)
    /\ decrypt_data(hash, last.before[last.path], last.key) = None

(* C28: whenever decrypt_file returns false because the path does not end  *)
(* in '.enc' or because decrypt_data returned null, the file system is     *)
(* unchanged: no plaintext file is created or overwritten and the input    *)
(* file is not deleted.                                                    *)
C28_RejectedLeavesDisk ==
    (LastNotAnArtifactPath \/ LastDecryptDataNone) =>
       (~last.ok /\ fs = last.before)

\* decrypt_file met an existing artifact that decrypt_data rejected, next to
\* an existing plaintext file
C28_Witness ==
    /\ LastDecryptDataNone
    /\ ~last.ok
    /\ Exists(fs, FaultPath)
    /\ Exists(fs, FaultArtifact)

\* the string of path contains one of the configured exclude_patterns, or
\* ends with 'quantum_shield.py'
ExcludedPath(path) ==
    \/ \E pattern \in ExcludePatterns :
          \E i \in 1..Len(path) :
             /\ i + Len(pattern) - 1 <= Len(path)
             /\ SubSeq(path, i, i + Len(pattern) - 1) = pattern
    \/ /\ Len(path) >= Len(SelfName)
       /\ SubSeq(path, Len(path) - Len(SelfName) + 1, Len(path)) = SelfName

(* C29: encrypt_file returns false and creates no artifact exactly for     *)
(* excluded paths among otherwise encryptable files, where a path is       *)
(* excluded if and only if its string contains one of the configured       *)
(* exclude_patterns as a substring or ends with 'quantum_shield.py'.       *)
C29_FalseExactlyForExcluded ==
    (last.op = "encrypt" /\ Exists(last.before, last.path)) =>
       /\ ~last.ok <=> ExcludedPath(last.path)
       /\ ExcludedPath(last.path) => fs = last.before
       /\ (~ExcludedPath(last.path) /\ ~BearsMarker(last.before, last.path))
             => Exists(fs, last.path \o EncSuffix)

\* the call was made on '/r/my_quantum_shield.py', which holds plain bytes
C29_Witness ==
    /\ last.op = "encrypt"
    /\ ~last.ok
    /\ EndsWith(last.path, SelfName)
    /\ Len(last.path) > Len(SelfName) + 3
    /\ ~BearsMarker(last.before, last.path)

\* encrypt_file on the entry at full has just returned true: the coordinator
\* is about to stage the artifact, or has found it missing
JustEncrypted(full) ==
    \/ /\ pc = "git_add"
       /\ full = Full(sensitive[idx])
    \/ /\ pc = "after_loop"
       /\ events # << >>
       /\ events[Len(events)] = Printed("Encrypted file missing for", full)

\* a plaintext of the manifest leaves the working tree only in the git rm
\* step of its own entry
PlaintextLeavesOnlyByGitRm ==
    \A p \in SensitivePaths :
       (Exists(fs, Full(p)) /\ ~Exists(fs', Full(p))) =>
          (pc = "git_rm" /\ p = sensitive[idx])

\* encrypt_file removes the original only if delete_original_after_encrypt
\* is set and dry_run is not (the file-level runs)
EncryptFileDeletesOnlyIfConfigured ==
    (/\ last.op = "encrypt"
     /\ Exists(last.before, last.path)
     /\ ~Exists(fs, last.path))
        => (config.delete_original_after_encrypt /\ ~config.dry_run)

(* C30, as stated: encrypt_file deletes the original file only when        *)
(* delete_original_after_encrypt is enabled (and dry_run is off); the      *)
(* coordinator disables the option, so immediately after each successful   *)
(* encrypt_file call in a batch both the plaintext and its artifact exist, *)
(* and the plaintext disappears only through the VersionControl remove     *)
(* step.                                                                   *)
C30_PlaintextAndArtifactKept ==
    [][ /\ pc \in {"loop", "encrypt", "git_add", "git_rm", "after_loop"}
           => ~config.delete_original_after_encrypt
        /\ \A p \in SensitivePaths :
              JustEncrypted(Full(p)) =>
                 (Exists(fs, Full(p)) /\ Exists(fs, EncPathOf(Full(p))))
        /\ PlaintextLeavesOnlyByGitRm
      ]_vars

(* C30, amended: as above, except that after a successful encrypt_file     *)
(* call in a batch the plaintext exists, and its artifact exists unless    *)
(* the file already bore the marker: encrypt_file then returns true        *)
(* without writing an artifact.                                            *)
C30_PlaintextKept ==
    [][ /\ pc \in {"loop", "encrypt", "git_add", "git_rm", "after_loop"}
           => ~config.delete_original_after_encrypt
        /\ \A p \in SensitivePaths :
              JustEncrypted(Full(p)) =>
                 /\ Exists(fs, Full(p))
                 /\ fs[Full(p)] = orig[Full(p)]
                 /\ ~BearsMarker(fs, Full(p)) => Exists(fs, EncPathOf(Full(p)))
        /\ PlaintextLeavesOnlyByGitRm
      ]_vars

\* the first entry was encrypted, staged and removed by git rm: its artifact
\* is in the working tree and its plaintext is not
C30_Witness ==
    /\ pc = "loop"
    /\ idx = 2
    /\ HasEventAt("git rm", "", Full(sensitive[1]))
    /\ ~Exists(fs, Full(sensitive[1]))
    /\ Exists(fs, EncPathOf(Full(sensitive[1])))
----------------------------------------------------------------------------
(* The directory scan *)

\* the best-effort text of a file: its decoding, nothing if it cannot be
\* opened
BestEffortText(path) ==
    IF CanRead(fs, perms, path) THEN DecodeIgnore(fs[path]) ELSE << >>

\* the classification filter lets the file at path through
FilterLetsThrough(path) ==
    \/ ~Truthy(classification_arg)
    \/ \E i \in 1..FilterLen :
          /\ i + Len(classification_arg) - 1 <= FilterLen
          /\ i + Len(classification_arg) - 1 <= Len(BestEffortText(path))
          /\ SubSeq(BestEffortText(path), i, i + Len(classification_arg) - 1)
               = classification_arg

\* C31: in every pass of the scan's loop, a regular file that the
\* classification filter lets through (no classification, or the
\* classification within the first 500 characters of its best-effort text)
\* is handed to encrypt_file and increments exactly one counter, the first
\* on true and the second on false; any other path leaves both counters
\* alone; nothing is raised, and the scan returns only when every path has
\* been passed.
C31_ScanCounts ==
    [][/\ scan_pc' # "raised"
       /\ scan_pc' = "returned" =>
            /\ pending = {}
            /\ UNCHANGED <<encrypted_count, skipped_count>>
       /\ \A file_path \in pending \ pending' :
            IF Exists(fs, file_path) /\ FilterLetsThrough(file_path)
            THEN /\ last'.op = "encrypt"
                 /\ last'.path = file_path
                 /\ last'.before = fs
                 /\ <<encrypted_count', skipped_count'>> =
                      IF last'.ok
                      THEN <<encrypted_count + 1, skipped_count>>
                      ELSE <<encrypted_count, skipped_count + 1>>
            ELSE UNCHANGED <<encrypted_count, skipped_count, last>>]_vars

\* a scan for 'TOP_SECRET' has returned (1, 1): the file whose decoded text
\* holds the classification at characters 491..500 was encrypted, the
\* excluded one skipped
C31_Witness ==
    /\ scan_pc = "returned"
    /\ Truthy(classification_arg)
    /\ encrypted_count = 1
    /\ skipped_count = 1
    /\ Exists(fs, FaultPath)
    /\ Len(fs[FaultPath]) > FilterLen
----------------------------------------------------------------------------
(* The audit log *)

\* the step is a call of encrypt_file
EncryptFileCalled == last' # last /\ last'.op = "encrypt"

\* what the same call returns and leaves on disk when the log can be opened
WithWritableLog(h, file_path) ==
    LET r == encrypt_file(h, config, fs,
                          [perms EXCEPT !.log_unwritable = FALSE],
                          file_path, encKey, CHOOSE s \in RunSalts : TRUE)
    IN  [ok |-> r.ok, files |-> r.files]

\* C32: the audit log only grows at its end; every call of encrypt_file,
\* whichever branch it takes, adds at least one entry about its file when
\* the log can be opened; and when it cannot, the call raises nothing and
\* returns the value, and leaves the disk, it would with a writable log.
C32_AuditLogAppendOnly ==
    [][/\ Len(audit_log) <= Len(audit_log')
       /\ SubSeq(audit_log', 1, Len(audit_log)) = audit_log
       /\ EncryptFileCalled =>
            /\ ~last'.raised
            /\ ~perms.log_unwritable =>
                 /\ Len(audit_log') > Len(audit_log)
                 /\ \A k \in (Len(audit_log) + 1)..Len(audit_log') :
                       audit_log'[k].path = last'.path
            /\ perms.log_unwritable =>
                 /\ audit_log' = audit_log
                 /\ last'.ok = WithWritableLog(hash', last'.path).ok
                 /\ fs' = WithWritableLog(hash', last'.path).files]_vars

\* two calls have been logged one after the other: the excluded file was
\* skipped, then the other one, which cannot be read, failed
C32_Witness ==
    /\ Len(audit_log) = 2
    /\ audit_log[1].msg = "Skipped (excluded)"
    /\ audit_log[2].msg = "Encryption error for"
    /\ last.exc
    /\ ~last.raised
----------------------------------------------------------------------------
(* The history purge *)

\* the commits of the branch that is checked out
HeadCommits ==
    { HistoryOf(repo, repo.head)[k] :
        k \in 1..Len(HistoryOf(repo, repo.head)) }

\* C33: once purge_old_commits has returned True for a history of more than
\* keep_commits commits (the commits 1..total_commits), the branch checked
\* out holds none of the commits older than the last keep_commits and every
\* one of the last keep_commits.
C33_PurgeKeepsLastCommits ==
    (/\ purge_ret = "True"
     /\ total_commits > purge_config.keep_commits)
        => /\ \A c \in 1..(total_commits - purge_config.keep_commits) :
                 c \notin HeadCommits
           /\ \A c \in (total_commits - purge_config.keep_commits + 1)
                           ..total_commits :
                 c \in HeadCommits
----------------------------------------------------------------------------
(* A version-control step that raises *)

\* git add, git rm, git commit or git push has raised
GitStepRaised ==
    \E op \in {"git_add", "git_rm", "commit", "push"} : HasEvent(op, "raised")

\* the plaintexts git rm -f has taken out of the working tree
RemovedByGitRm ==
    { events[k].path : k \in { j \in 1..Len(events) : events[j].op = "git rm" } }

\* C34: once a version-control step has raised, the run is in its cleanup or
\* over with exit status 1; neither the unstaging nor the restore of the
\* rollback has run or runs; the plaintexts git rm removed are still absent
\* and still staged as removed; and when the run is over their copies in the
\* safety store are gone with it.
C34_GitRaiseSkipsRollback ==
    GitStepRaised =>
        /\ pc \in {"finally", "done"}
        /\ exitCode = 1
        /\ ~HasEvent("git reset", "")
        /\ ~HasEvent("restore", "")
        /\ \A full \in RemovedByGitRm :
              /\ ~Exists(fs, full)
              /\ full \in git.index \cup git.head
        /\ pc = "done" => tmpdir = Released

\* the run is over after git rm raised for the second entry: the plaintext
\* of the first is gone from the working tree and from the safety store,
\* which held it while the loop ran
C34_Witness ==
    /\ pc = "done"
    /\ HasEvent("git_rm", "raised")
    /\ RemovedByGitRm # {}
    /\ \A full \in RemovedByGitRm : ~Exists(fs, full) /\ Exists(orig, full)
    /\ Len(orig_copies) = 2
    /\ tmpdir = Released
----------------------------------------------------------------------------
(* The verification pass *)

\* the verification loop stands before an entry whose original the backup
\* holds
AtVerifiableEntry ==
    /\ pc = "verify"
    /\ idx <= Len(orig_copies)
    /\ Exists(verify_tmp.files, RelativeToRoot(orig_copies[idx][1]))

\* the copy the verification of the entry it stands before decrypts
TestEncHere == TestEncOf(EncPathOf(orig_copies[idx][1]))

----------------------------------------------------------------------------
(* What the rollback leaves *)

\* the artifacts the loop has staged with git add
StagedArtifacts ==
    { events[k].path : k \in { j \in 1..Len(events) : events[j].op = "git add" } }

\* the files in the working tree whose name ends in '.enc'
EncFiles(files) == { path \in DOMAIN files : EndsWith(path, EncSuffix) }

\* C36: the rollback deletes or alters no file ending in '.enc'; after it,
\* for the rest of the run, every artifact the loop had written and staged
\* is in the working tree, neither staged nor committed, and the plaintext
\* it was made from is in the working tree again.
C36_RollbackKeepsArtifacts ==
    /\ [][(pc = "after_loop" /\ failed) =>
            \A path \in EncFiles(fs) :
               Exists(fs', path) /\ fs'[path] = fs[path]]_vars
    /\ [](HasEvent("git reset", "") =>
            /\ git.index = {}
            /\ git.head = {}
            /\ \A enc_path \in StagedArtifacts : Exists(fs, enc_path)
            /\ \A full \in RemovedByGitRm :
                  /\ Exists(fs, full)
                  /\ Exists(fs, EncPathOf(full)))

\* a batch was rolled back at its second entry and is over: the artifact of
\* the first entry is in the working tree next to its restored plaintext
C36_Witness ==
    /\ pc = "done"
    /\ HasEvent("git reset", "")
    /\ Cardinality(StagedArtifacts) = 1
    /\ Cardinality(RemovedByGitRm) = 1
    /\ \A full \in RemovedByGitRm :
          /\ Exists(fs, full)
          /\ Exists(fs, EncPathOf(full))
          /\ fs[full] = orig[full]
----------------------------------------------------------------------------
(* What decrypt_data does not detect *)

\* decrypt_data has been called on the package the state holds
DecryptCalledOnPackage ==
    cpc \in {"decrypted", "tampered_decrypted", "malformed_decrypted",
             "reversioned_decrypted"}

----------------------------------------------------------------------------
(* Positions at which the two key layers cancel *)

\* the positions i of 0..N-1 with i mod L = (N-1-i) mod L
CancellingPositions(N, L) ==
    { i \in 0..(N - 1) : i % L = (N - 1 - i) % L }

\* C38: at every position i of a plaintext of length N at which i mod L
\* equals (N-1-i) mod L, L being the length of the derived key, the
\* ciphertext byte encrypt_data produced is P[i] XOR ((i+1) mod 256),
\* whatever the passphrase, the salt and the key derived from them.
C38_KeyLayersCancel ==
    package # None =>
       LET c == CiphertextOf(package)
           N == Len(plaintext)
       IN  /\ Len(c) = N
           /\ \A i \in CancellingPositions(N, KeyLen) :
                 c[i + 1] = BitXor(plaintext[i + 1], (i + 1) % ByteMod)

\* a plaintext of three bytes was encrypted under a key whose bytes differ:
\* its middle byte, at least, carries nothing of the key
C38_Witness ==
    /\ package # None
    /\ Len(plaintext) = 3
    /\ 1 \in CancellingPositions(3, KeyLen)
    /\ LET key == hash[Combined(encKey, SaltFieldOf(package))]
       IN  \E j, k \in 1..Len(key) : key[j] # key[k]
    /\ CiphertextOf(package)[2] = BitXor(plaintext[2], 2)
----------------------------------------------------------------------------
(* A plaintext that holds the marker, in a batch *)

\* the loop is about to call encrypt_file on an entry that is not excluded
\* and whose plaintext holds the marker within its first 100 bytes
AtMarkerBearingEntry ==
    /\ pc = "encrypt"
    /\ ~ExcludedPath(Full(sensitive[idx]))
    /\ BearsMarker(fs, Full(sensitive[idx]))

\* the run has found the artifact of a marker-bearing entry missing
MarkerEntryFoundMissing ==
    \E k \in 1..Len(events) :
       /\ events[k].op = "print"
       /\ events[k].msg = "Encrypted file missing for"
       /\ BearsMarker(orig, events[k].path)

====
